---- MODULE Spec2Model ----
(***************************************************************************)
(* OTS consensus module (redmansionorg/ots): the batch state machine of    *)
(* consensus/state.go, the transition engine of consensus/transition.go,   *)
(* the snapshot manager of consensus/snapshot.go and the consensus         *)
(* manager's system-transaction validation.                                *)
(*                                                                         *)
(* Hashes, addresses and 32-byte words are modelled as natural numbers;    *)
(* the byte-wise order of two hashes is the order of the numbers.  The     *)
(* zero hash and the zero address are 0.  A string is a sequence; the      *)
(* empty string is <<>>.  A uint64 is a number below U64Modulus.           *)
(***************************************************************************)
EXTENDS Integers, Sequences, FiniteSets, TLC

VARIABLES
    enabled,       \* OTSConsensusManager.enabled / SnapshotManager.otsEnabled
    tip,           \* number of the last block of the chain handed to ProcessBlock
    tipTime,       \* header.Time of that block, in hours since the epoch
    cache,         \* SnapshotManager.cache: sequence of entries, least recent first
    db,            \* SnapshotManager.db: block hash -> persisted snapshot
    claimed,       \* chain receipts: block number -> RUIDs of its CopyrightClaimed events
    lastResult,    \* what the last manager ProcessBlock returned: <<>> or <<snapshot>>
    lastAnchored,  \* history: <<>> or <<the batch anchored last, with the RUIDs of its range>>
    hadMatch,      \* history: the last block carried an event whose rootHash topic matched
    spent,         \* history: system txs whose target status the batch has left
    st,            \* a free-standing OTSState driven by direct calls
    lastCall,      \* history: the last direct call on st and its outcome
    query,         \* the last GetSystemTransactions call: its arguments and what it returned
    codec,         \* the last systx call: its arguments and what it returned
    held,          \* the *Snapshot a caller of the SnapshotManager holds: <<>> or <<object>>
    cacheRefs,     \* identity of the *Snapshot each cache entry points to: hash -> reference
    durable,       \* history: hash -> the snapshot last stored durably and not deleted since
    lastGet,       \* the last SnapshotManager call: its name, argument and error
    chainDb,       \* the chain database: the first block it has and the blocks after it
    rebuilt,       \* the last manager call on the recorded chain and what it returned
    evaluated,     \* the last call of a function without state: its arguments and result
    mu,            \* the manager's RWMutex: whether the writer holds it, the readers that do
    writer,        \* the thread that runs ProcessBlock or RebuildFromChain: its position and locals
    readers,       \* the threads that query the manager: position, call, snapshot obtained
    committed,     \* every snapshot a store operation stored
    locks,         \* the two sync.RWMutex: lock -> writer announced, holding, readers
    calls          \* the threads that call the manager: operation, position, locks held

vars == <<enabled, tip, tipTime, cache, db, claimed, lastResult,
          lastAnchored, hadMatch, spent, st, lastCall, query, codec,
          held, cacheRefs, durable, lastGet, chainDb, rebuilt, evaluated,
          mu, writer, readers, committed, locks, calls>>

chainVars == <<enabled, tip, tipTime, cache, db, claimed, lastResult,
               lastAnchored, hadMatch, spent>>

callVars == <<st, lastCall>>

txVars == <<query, codec>>

snapVars == <<held, cacheRefs, durable, lastGet>>

rebuildVars == <<chainDb, rebuilt>>

lockVars == <<locks, calls>>

concVars == <<mu, writer, readers, committed, lockVars>>

-----------------------------------------------------------------------------
(* Bounds                                                                  *)

MaxBlock == 4          \* blocks processed along the chain
MaxLogs == 3           \* logs carried by the receipts of one block
CacheBound == 1        \* entries the snapshot cache holds in the model
MaxArg == 2            \* block-number arguments of direct state calls
MaxWords == 5          \* 32-byte words of the longest call; calldata is tried one word longer

-----------------------------------------------------------------------------
(* state.go: BatchStatus                                                   *)

BatchStatusNone == 0
BatchStatusTriggered == 1
BatchStatusSubmitted == 2
BatchStatusConfirmed == 3
BatchStatusAnchored == 4

Nil == <<>>

ZeroHash == 0

CanTransitionTo(s, target) ==
    CASE s = BatchStatusNone      -> target = BatchStatusTriggered
      [] s = BatchStatusTriggered -> target = BatchStatusSubmitted
      [] s = BatchStatusSubmitted -> target = BatchStatusConfirmed
      [] s = BatchStatusConfirmed -> target = BatchStatusAnchored \/ target = BatchStatusNone
      [] s = BatchStatusAnchored  -> target = BatchStatusNone
      [] OTHER                    -> FALSE

(* state.go: OTSState, BatchState.  CurrentBatch is Nil or <<batch>>.       *)

NewOTSState(en) ==
    [Enabled |-> en, LastAnchoredBlock |-> 0, CurrentBatch |-> Nil]

NewBatchState(startBlock, endBlock, triggerBlock, triggerNode, rootHash) ==
    [StartBlock |-> startBlock, EndBlock |-> endBlock, RootHash |-> rootHash,
     Status |-> BatchStatusTriggered,
     TriggerBlock |-> triggerBlock, TriggerNode |-> triggerNode,
     OTSDigest |-> 0, SubmittedAt |-> 0, SubmittedBy |-> 0,
     BTCBlockHeight |-> 0, BTCTxID |-> <<>>, BTCTimestamp |-> 0,
     ConfirmedAt |-> 0, ConfirmedBy |-> 0,
     AnchoredAt |-> 0, AnchoredBy |-> 0]

HasActiveBatch(s) ==
    s.CurrentBatch # Nil /\ s.CurrentBatch[1].Status # BatchStatusNone

CanTrigger(s) == s.Enabled /\ ~HasActiveBatch(s)

Trigger(s, startBlock, endBlock, triggerBlock, triggerNode, rootHash) ==
    IF ~CanTrigger(s)
    THEN [err |-> "ErrAlreadyTriggered", state |-> s]
    ELSE [err |-> "nil",
          state |-> [s EXCEPT !.CurrentBatch =
                        <<NewBatchState(startBlock, endBlock, triggerBlock,
                                        triggerNode, rootHash)>>]]

MarkSubmitted_clobber(s, digest, blockNumber, submitter) ==
    IF s.CurrentBatch = Nil \/ s.CurrentBatch[1].Status # BatchStatusTriggered
    THEN [err |-> "ErrNotTriggered", state |-> s]
    ELSE [err |-> "nil",
          state |-> [s EXCEPT !.CurrentBatch =
                        <<[s.CurrentBatch[1] EXCEPT !.OTSDigest = digest,
                                                    !.SubmittedAt = blockNumber,
                                                    !.SubmittedBy = submitter,
                                                    !.TriggerNode = submitter,
                                                    !.Status = BatchStatusSubmitted]>>]]

\* A MarkSubmitted that records the block before it checks the status.
MarkSubmitted_writeFirst(s, digest, blockNumber, submitter) ==
    IF s.CurrentBatch = Nil
    THEN [err |-> "ErrNotTriggered", state |-> s]
    ELSE IF s.CurrentBatch[1].Status # BatchStatusTriggered
    THEN [err |-> "ErrNotTriggered",
          state |-> [s EXCEPT !.CurrentBatch =
                        <<[s.CurrentBatch[1] EXCEPT !.SubmittedAt = blockNumber + 1]>>]]
    ELSE [err |-> "nil",
          state |-> [s EXCEPT !.CurrentBatch =
                        <<[s.CurrentBatch[1] EXCEPT !.OTSDigest = digest,
                                                    !.SubmittedAt = blockNumber,
                                                    !.SubmittedBy = submitter,
                                                    !.Status = BatchStatusSubmitted]>>]]

MarkSubmitted(s, digest, blockNumber, submitter) ==
    IF s.CurrentBatch = Nil \/ s.CurrentBatch[1].Status # BatchStatusTriggered
    THEN [err |-> "ErrNotTriggered", state |-> s]
    ELSE IF ~CanTransitionTo(s.CurrentBatch[1].Status, BatchStatusSubmitted)
    THEN [err |-> "ErrInvalidTransition", state |-> s]
    ELSE [err |-> "nil",
          state |-> [s EXCEPT !.CurrentBatch =
                        <<[s.CurrentBatch[1] EXCEPT !.OTSDigest = digest,
                                                    !.SubmittedAt = blockNumber,
                                                    !.SubmittedBy = submitter,
                                                    !.Status = BatchStatusSubmitted]>>]]

MarkConfirmed_anyStatus(s, btcBlockHeight, btcTxID, btcTimestamp, blockNumber, confirmer) ==
    IF s.CurrentBatch = Nil
    THEN [err |-> "ErrNotSubmitted", state |-> s]
    ELSE [err |-> "nil",
          state |-> [s EXCEPT !.CurrentBatch =
                        <<[s.CurrentBatch[1] EXCEPT !.BTCBlockHeight = btcBlockHeight,
                                                    !.BTCTxID = btcTxID,
                                                    !.BTCTimestamp = btcTimestamp,
                                                    !.ConfirmedAt = blockNumber,
                                                    !.ConfirmedBy = confirmer,
                                                    !.Status = BatchStatusConfirmed]>>]]

MarkConfirmed(s, btcBlockHeight, btcTxID, btcTimestamp, blockNumber, confirmer) ==
    IF s.CurrentBatch = Nil \/ s.CurrentBatch[1].Status # BatchStatusSubmitted
    THEN [err |-> "ErrNotSubmitted", state |-> s]
    ELSE IF ~CanTransitionTo(s.CurrentBatch[1].Status, BatchStatusConfirmed)
    THEN [err |-> "ErrInvalidTransition", state |-> s]
    ELSE [err |-> "nil",
          state |-> [s EXCEPT !.CurrentBatch =
                        <<[s.CurrentBatch[1] EXCEPT !.BTCBlockHeight = btcBlockHeight,
                                                    !.BTCTxID = btcTxID,
                                                    !.BTCTimestamp = btcTimestamp,
                                                    !.ConfirmedAt = blockNumber,
                                                    !.ConfirmedBy = confirmer,
                                                    !.Status = BatchStatusConfirmed]>>]]

MarkAnchored_keepBatch(s, blockNumber, anchorer) ==
    IF s.CurrentBatch = Nil \/ s.CurrentBatch[1].Status # BatchStatusConfirmed
    THEN [err |-> "ErrNotConfirmed", state |-> s]
    ELSE [err |-> "nil",
          state |-> [s EXCEPT !.LastAnchoredBlock = s.CurrentBatch[1].EndBlock,
                              !.CurrentBatch =
                        <<[s.CurrentBatch[1] EXCEPT !.AnchoredAt = blockNumber,
                                                    !.AnchoredBy = anchorer,
                                                    !.Status = BatchStatusAnchored]>>]]

MarkAnchored_startBlock(s, blockNumber, anchorer) ==
    IF s.CurrentBatch = Nil \/ s.CurrentBatch[1].Status # BatchStatusConfirmed
    THEN [err |-> "ErrNotConfirmed", state |-> s]
    ELSE [err |-> "nil",
          state |-> [s EXCEPT !.LastAnchoredBlock = s.CurrentBatch[1].StartBlock - 1,
                              !.CurrentBatch = Nil]]

\* MarkAnchored writes AnchoredAt, AnchoredBy and Status = Anchored into the
\* batch and then drops the batch in the same call, so only LastAnchoredBlock
\* and the cleared batch remain.
\* A MarkAnchored that anchors a batch of any status.
MarkAnchored_anyStatus(s, blockNumber, anchorer) ==
    IF s.CurrentBatch = Nil
    THEN [err |-> "ErrNotConfirmed", state |-> s]
    ELSE [err |-> "nil",
          state |-> [s EXCEPT !.LastAnchoredBlock = s.CurrentBatch[1].EndBlock,
                              !.CurrentBatch = Nil]]

MarkAnchored(s, blockNumber, anchorer) ==
    IF s.CurrentBatch = Nil \/ s.CurrentBatch[1].Status # BatchStatusConfirmed
    THEN [err |-> "ErrNotConfirmed", state |-> s]
    ELSE IF ~CanTransitionTo(s.CurrentBatch[1].Status, BatchStatusAnchored)
    THEN [err |-> "ErrInvalidTransition", state |-> s]
    ELSE [err |-> "nil",
          state |-> [s EXCEPT !.LastAnchoredBlock = s.CurrentBatch[1].EndBlock,
                              !.CurrentBatch = Nil]]

-----------------------------------------------------------------------------
(* transition.go: constants                                                *)

TriggerHourUTC == 0
copyrightRegistryAddr == 36864
CopyrightClaimedEventSig == 1001
otsSubmittedSig == 1002
otsConfirmedSig == 1003
anchoredSig == 1004
ReceiptStatusSuccessful == 1

\* The modulus of uint64 arithmetic, scaled down from 2^64.
U64Modulus == 2^8

\* big.Int.Uint64 of a 32-byte word: its low 64 bits.
Uint64(w) == w % U64Modulus

\* common.Bytes2Hex of a 32-byte word: the hexadecimal text of the word.
Bytes2Hex(w) == <<w>>

(* crypto.Keccak256Hash over one 32-byte word and over two concatenated    *)
(* words: injective, with disjoint ranges, never the zero hash, and not    *)
(* in the order of the words hashed.                                       *)

Keccak256Leaf(w) == IF w % 2 = 0 THEN 2 * w + 3 ELSE 2 * w - 1

Keccak256Pair(l, r) == (l + r) * (l + r + 1) + 2 * r + 2

(* transition.go: buildMerkleRoot and the sort of calculateRootHash        *)

RECURSIVE InsertSorted(_, _)
InsertSorted(sorted, x) ==
    IF sorted = <<>> THEN <<x>>
    ELSE IF x < Head(sorted) THEN <<x>> \o sorted
    ELSE <<Head(sorted)>> \o InsertSorted(Tail(sorted), x)

RECURSIVE SortRUIDs(_)
SortRUIDs(ruids) ==
    IF ruids = <<>> THEN <<>>
    ELSE InsertSorted(SortRUIDs(Tail(ruids)), Head(ruids))

\* A combination that hashes the pair in the order of the layer.
CombinePair_unordered(left, right) == Keccak256Pair(left, right)

CombinePair(left, right) ==
    IF left > right THEN Keccak256Pair(right, left) ELSE Keccak256Pair(left, right)

NextLayer(layer) ==
    LET padded == IF Len(layer) % 2 = 1 THEN Append(layer, layer[Len(layer)]) ELSE layer
    IN  [i \in 1..(Len(padded) \div 2) |-> CombinePair(padded[2 * i - 1], padded[2 * i])]

RECURSIVE ReduceLayers(_)
ReduceLayers(layer) ==
    IF Len(layer) > 1 THEN ReduceLayers(NextLayer(layer)) ELSE layer[1]

buildMerkleRoot(ruids) ==
    IF Len(ruids) = 0 THEN ZeroHash
    ELSE ReduceLayers([i \in 1..Len(ruids) |-> Keccak256Leaf(ruids[i])])

\* The placeholder of transition.go: no RUID is read from any block.
getRUIDsFromBlock(blockNum) == <<>>

RECURSIVE CollectRange(_, _)
CollectRange(startBlock, endBlock) ==
    IF startBlock > endBlock THEN <<>>
    ELSE getRUIDsFromBlock(startBlock) \o CollectRange(startBlock + 1, endBlock)

\* calculateRootHash after its collection loop: the empty list gives the
\* zero hash, any other list is sorted by raw bytes and reduced.
calculateRootHashOf(ruids) ==
    IF Len(ruids) = 0 THEN ZeroHash ELSE buildMerkleRoot(SortRUIDs(ruids))

calculateRootHash(startBlock, endBlock) ==
    calculateRootHashOf(CollectRange(startBlock, endBlock))

(* transition.go: the trigger predicate.  time.Unix(t).UTC() of a time in   *)
(* hours: 24 hours a day, 365 days a year, the epoch on day 1 of 1970.      *)

Hour(t) == t % 24
YearDay(t) == ((t \div 24) % 365) + 1
Year(t) == 1970 + ((t \div 24) \div 365)

\* A predicate that compares the day of the year alone.
isTriggerBlock_dayOnly(header, parentHeader) ==
    IF parentHeader = Nil THEN FALSE
    ELSE LET currentTime == header.Time
             parentTime == parentHeader[1].Time
         IN  IF YearDay(currentTime) > YearDay(parentTime)
             THEN Hour(currentTime) >= TriggerHourUTC
             ELSE Hour(parentTime) < TriggerHourUTC /\ Hour(currentTime) >= TriggerHourUTC

\* parentHeader is what getHeader(header.ParentHash, number - 1) returns.
isTriggerBlock(header, parentHeader) ==
    IF parentHeader = Nil THEN FALSE
    ELSE LET currentTime == header.Time
             parentTime == parentHeader[1].Time
         IN  IF Year(currentTime) > Year(parentTime) \/ YearDay(currentTime) > YearDay(parentTime)
             THEN Hour(currentTime) >= TriggerHourUTC
             ELSE Hour(parentTime) < TriggerHourUTC /\ Hour(currentTime) >= TriggerHourUTC

handleTrigger_endAtTrigger(state, header) ==
    LET blockNumber == header.Number
        startBlock == state.LastAnchoredBlock + 1
        endBlock == blockNumber
    IN  IF endBlock < startBlock THEN state
        ELSE Trigger(state, startBlock, endBlock, blockNumber, header.Coinbase,
                     calculateRootHash(startBlock, endBlock)).state

\* A trigger whose batch starts at block 1 whatever was anchored before.
handleTrigger_fromOne(state, header) ==
    LET blockNumber == header.Number
        startBlock == 1
        endBlock == (blockNumber + U64Modulus - 1) % U64Modulus
    IN  IF endBlock < startBlock THEN state
        ELSE Trigger(state, startBlock, endBlock, blockNumber, header.Coinbase,
                     calculateRootHash(startBlock, endBlock)).state

handleTrigger(state, header) ==
    LET blockNumber == header.Number
        startBlock == (state.LastAnchoredBlock + 1) % U64Modulus
        endBlock == (blockNumber + U64Modulus - 1) % U64Modulus
    IN  IF endBlock < startBlock THEN state
        ELSE Trigger(state, startBlock, endBlock, blockNumber, header.Coinbase,
                     calculateRootHash(startBlock, endBlock)).state

(* transition.go: scanning the receipts of a block                          *)

RECURSIVE SuccessfulLogs(_)
SuccessfulLogs(receipts) ==
    IF receipts = <<>> THEN <<>>
    ELSE (IF Head(receipts).Status # ReceiptStatusSuccessful THEN <<>>
          ELSE Head(receipts).Logs) \o SuccessfulLogs(Tail(receipts))

\* A scan that takes the logs of every address.
RegistryLogs_anyAddress(receipts) == SuccessfulLogs(receipts)

RegistryLogs(receipts) ==
    SelectSeq(SuccessfulLogs(receipts), LAMBDA l : l.Address = copyrightRegistryAddr)

parseOTSSubmittedLog(log) ==
    IF Len(log.Topics) < 2 \/ log.Topics[1] # otsSubmittedSig THEN Nil
    ELSE IF Len(log.Data) < 1 THEN Nil
    ELSE <<[RootHash |-> log.Topics[2], Digest |-> log.Data[1]]>>

extractOTSSubmission(receipts) ==
    LET found == SelectSeq(RegistryLogs(receipts), LAMBDA l : parseOTSSubmittedLog(l) # Nil)
    IN  IF found = <<>> THEN Nil ELSE parseOTSSubmittedLog(found[1])

parseOTSConfirmedLog(log) ==
    IF Len(log.Topics) < 2 \/ log.Topics[1] # otsConfirmedSig THEN Nil
    ELSE IF Len(log.Data) < 3 THEN Nil
    ELSE <<[RootHash |-> log.Topics[2],
            BTCBlockHeight |-> Uint64(log.Data[1]),
            BTCTxID |-> Bytes2Hex(log.Data[2]),
            BTCTimestamp |-> Uint64(log.Data[3])]>>

extractBTCConfirmation(receipts) ==
    LET found == SelectSeq(RegistryLogs(receipts), LAMBDA l : parseOTSConfirmedLog(l) # Nil)
    IN  IF found = <<>> THEN Nil ELSE parseOTSConfirmedLog(found[1])

isValidAnchorLog(log, batch) ==
    IF Len(log.Topics) < 2 \/ log.Topics[1] # anchoredSig THEN FALSE
    ELSE IF log.Topics[2] # batch.RootHash THEN FALSE
    ELSE TRUE

\* A scan that gives up at the first registry log.
hasValidAnchorTx_firstLog(receipts, batch) ==
    /\ RegistryLogs(receipts) # <<>>
    /\ isValidAnchorLog(RegistryLogs(receipts)[1], batch)

hasValidAnchorTx(receipts, batch) ==
    \E i \in 1..Len(RegistryLogs(receipts)) : isValidAnchorLog(RegistryLogs(receipts)[i], batch)

(* transition.go: applyTransitions, the four rules in sequence, each on the *)
(* state the previous rule left.                                            *)

afterTrigger(state, header, parentHeader) ==
    IF CanTrigger(state) /\ isTriggerBlock(header, parentHeader)
    THEN handleTrigger(state, header) ELSE state

afterSubmit(s1, header, receipts) ==
    IF s1.CurrentBatch # Nil /\ s1.CurrentBatch[1].Status = BatchStatusTriggered
       /\ extractOTSSubmission(receipts) # Nil
    THEN MarkSubmitted(s1, extractOTSSubmission(receipts)[1].Digest,
                       header.Number, header.Coinbase).state
    ELSE s1

afterConfirm(s2, header, receipts) ==
    IF s2.CurrentBatch # Nil /\ s2.CurrentBatch[1].Status = BatchStatusSubmitted
       /\ extractBTCConfirmation(receipts) # Nil
    THEN LET confirmation == extractBTCConfirmation(receipts)[1]
         IN  MarkConfirmed(s2, confirmation.BTCBlockHeight, confirmation.BTCTxID,
                           confirmation.BTCTimestamp, header.Number, header.Coinbase).state
    ELSE s2

afterAnchor(s3, header, receipts) ==
    IF s3.CurrentBatch # Nil /\ s3.CurrentBatch[1].Status = BatchStatusConfirmed
       /\ hasValidAnchorTx(receipts, s3.CurrentBatch[1])
    THEN MarkAnchored(s3, header.Number, header.Coinbase).state
    ELSE s3

\* The state rules 1 to 3 leave, on which rule 4 is evaluated.
beforeAnchor(state, header, parentHeader, receipts) ==
    afterConfirm(afterSubmit(afterTrigger(state, header, parentHeader), header, receipts),
                 header, receipts)

applyTransitions(state, header, parentHeader, receipts) ==
    afterAnchor(beforeAnchor(state, header, parentHeader, receipts), header, receipts)

-----------------------------------------------------------------------------
(* snapshot.go: Snapshot and SnapshotManager                                *)

snapshotPersistInterval == 1024

NewSnapshot(number, hash, state) ==
    [Number |-> number, Hash |-> hash, State |-> state]

\* The block hash of the block with the given number; never the zero hash.
HeaderHash(number) == 100 + number

GetGenesisSnapshot(genesisHash) == NewSnapshot(0, genesisHash, NewOTSState(enabled))

CacheContains(c, hash) == \E i \in 1..Len(c) : c[i].Hash = hash

CachePeek(c, hash) == (CHOOSE i \in 1..Len(c) : c[i].Hash = hash)

\* cache.Add: the entry becomes the most recent one; a full cache drops its
\* least recent entry.
CacheAdd(c, hash, snap) ==
    LET others == SelectSeq(c, LAMBDA e : e.Hash # hash)
        added == Append(others, [Hash |-> hash, Snap |-> snap])
    IN  IF Len(added) > CacheBound THEN Tail(added) ELSE added

loadFromDB(d, hash) ==
    IF hash \in DOMAIN d THEN [err |-> "nil", snap |-> <<d[hash]>>]
    ELSE [err |-> "ErrSnapshotNotFound", snap |-> Nil]

saveToDB(d, snap) == (snap.Hash :> snap) @@ d

GetSnapshot(c, d, hash) ==
    IF CacheContains(c, hash)
    THEN [err |-> "nil", snap |-> <<c[CachePeek(c, hash)].Snap>>,
          cache |-> CacheAdd(c, hash, c[CachePeek(c, hash)].Snap)]
    ELSE IF loadFromDB(d, hash).err # "nil"
    THEN [err |-> loadFromDB(d, hash).err, snap |-> Nil, cache |-> c]
    ELSE [err |-> "nil", snap |-> loadFromDB(d, hash).snap,
          cache |-> CacheAdd(c, hash, loadFromDB(d, hash).snap[1])]

StoreSnapshot_cacheOnly(c, d, snap) ==
    [cache |-> CacheAdd(c, snap.Hash, snap), db |-> d]

StoreSnapshot(c, d, snap) ==
    [cache |-> CacheAdd(c, snap.Hash, snap),
     db |-> IF snap.Number % snapshotPersistInterval = 0 THEN saveToDB(d, snap) ELSE d]

\* StoreSnapshot on a database whose Put may fail: the cache has the
\* snapshot before the database is written.
StoreSnapshotOn(c, d, snap, putFails) ==
    IF putFails /\ snap.Number % snapshotPersistInterval = 0
    THEN [err |-> "ErrPut", cache |-> CacheAdd(c, snap.Hash, snap), db |-> d]
    ELSE [err |-> "nil", cache |-> StoreSnapshot(c, d, snap).cache,
          db |-> StoreSnapshot(c, d, snap).db]

(* transition.go: TransitionEngine.ProcessBlock                             *)

\* An engine that returns the error of StoreSnapshot and no snapshot.
EngineProcessBlockOn_rejects(header, parentSnap, parentHeader, receipts, c, d, putFails) ==
    LET newState == parentSnap.State
        newSnap == NewSnapshot(header.Number, header.Hash,
                       IF newState.Enabled
                       THEN applyTransitions(newState, header, parentHeader, receipts)
                       ELSE newState)
        stored == StoreSnapshotOn(c, d, newSnap, putFails)
    IN  IF ~newState.Enabled
        THEN [err |-> "nil", snap |-> <<newSnap>>, cache |-> c, db |-> d, stored |-> "none"]
        ELSE IF stored.err # "nil"
        THEN [err |-> stored.err, snap |-> Nil, cache |-> stored.cache, db |-> stored.db,
              stored |-> stored.err]
        ELSE [err |-> "nil", snap |-> <<newSnap>>, cache |-> stored.cache, db |-> stored.db,
              stored |-> stored.err]

\* ProcessBlock with its error result; stored is what StoreSnapshot
\* returned, "none" when it was not called.
EngineProcessBlockOn(header, parentSnap, parentHeader, receipts, c, d, putFails) ==
    LET newState == parentSnap.State
    IN  IF ~newState.Enabled
        THEN [err |-> "nil", snap |-> <<NewSnapshot(header.Number, header.Hash, newState)>>,
              cache |-> c, db |-> d, stored |-> "none"]
        ELSE LET newSnap == NewSnapshot(header.Number, header.Hash,
                                applyTransitions(newState, header, parentHeader, receipts))
                 stored == StoreSnapshotOn(c, d, newSnap, putFails)
             IN  [err |-> "nil", snap |-> <<newSnap>>, cache |-> stored.cache,
                  db |-> stored.db, stored |-> stored.err]

\* ProcessBlock on a database that takes every write.
EngineProcessBlock(header, parentSnap, parentHeader, receipts, c, d) ==
    LET done == EngineProcessBlockOn(header, parentSnap, parentHeader, receipts, c, d, FALSE)
    IN  [snap |-> done.snap[1], cache |-> done.cache, db |-> done.db]

(* manager.go: OTSConsensusManager.ProcessBlock                             *)

\* A manager that falls back to genesis for every block number.
ManagerProcessBlock_genesisAlways(header, parentHash, parentHeader, receipts) ==
    IF ~enabled
    THEN [err |-> "nil", snap |-> Nil, cache |-> cache, db |-> db]
    ELSE LET got == GetSnapshot(cache, db, parentHash)
             parentSnap == IF got.err # "nil" THEN GetGenesisSnapshot(parentHash)
                           ELSE got.snap[1]
             done == EngineProcessBlock(header, parentSnap, parentHeader,
                                        receipts, got.cache, db)
         IN  [err |-> "nil", snap |-> <<done.snap>>,
              cache |-> done.cache, db |-> done.db]

ManagerProcessBlock(header, parentHash, parentHeader, receipts) ==
    IF ~enabled
    THEN [err |-> "nil", snap |-> Nil, cache |-> cache, db |-> db]
    ELSE LET got == GetSnapshot(cache, db, parentHash)
         IN  IF got.err # "nil" /\ header.Number # 1
             THEN [err |-> got.err, snap |-> Nil, cache |-> got.cache, db |-> db]
             ELSE LET parentSnap == IF got.err # "nil" THEN GetGenesisSnapshot(parentHash)
                                    ELSE got.snap[1]
                      done == EngineProcessBlock(header, parentSnap, parentHeader,
                                                 receipts, got.cache, db)
                  IN  [err |-> "nil", snap |-> <<done.snap>>,
                       cache |-> done.cache, db |-> done.db]

-----------------------------------------------------------------------------
(* ots_systx.go: selectors and decoders.  Calldata is a 4-byte selector     *)
(* (absent when the data is shorter than 4 bytes) followed by 32-byte      *)
(* words.                                                                   *)

OTSSubmittedSelector == 2001
OTSConfirmedSelector == 2002
anchorSelector == 2003

DataLen(data) == 4 * Len(data.Selector) + 32 * Len(data.Words)

matchSelector(data, selector) == Len(data.Selector) = 1 /\ data.Selector[1] = selector

IsOTSSubmittedTx(tx) ==
    IF DataLen(tx.Data) < 4 THEN FALSE ELSE matchSelector(tx.Data, OTSSubmittedSelector)

IsOTSConfirmedTx(tx) ==
    IF DataLen(tx.Data) < 4 THEN FALSE ELSE matchSelector(tx.Data, OTSConfirmedSelector)

IsAnchorTx(tx) ==
    IF DataLen(tx.Data) < 4 THEN FALSE ELSE matchSelector(tx.Data, anchorSelector)

DecodeOTSSubmittedTx(tx) ==
    IF DataLen(tx.Data) < 68 THEN [err |-> "ErrInvalidOTSTx", params |-> Nil]
    ELSE IF ~matchSelector(tx.Data, OTSSubmittedSelector)
    THEN [err |-> "ErrInvalidOTSTx", params |-> Nil]
    ELSE [err |-> "nil",
          params |-> <<[RootHash |-> tx.Data.Words[1], OTSDigest |-> tx.Data.Words[2]]>>]

DecodeOTSConfirmedTx(tx) ==
    IF DataLen(tx.Data) < 132 THEN [err |-> "ErrInvalidOTSTx", params |-> Nil]
    ELSE IF ~matchSelector(tx.Data, OTSConfirmedSelector)
    THEN [err |-> "ErrInvalidOTSTx", params |-> Nil]
    ELSE [err |-> "nil",
          params |-> <<[RootHash |-> tx.Data.Words[1],
                        BTCBlockHeight |-> Uint64(tx.Data.Words[2]),
                        BTCTxID |-> tx.Data.Words[3],
                        BTCTimestamp |-> Uint64(tx.Data.Words[4])]>>]

DecodeCalldata(data) ==
    IF DataLen(data) < 4 + 32 * 5 THEN [err |-> "ErrInvalidOTSTx", params |-> Nil]
    ELSE [err |-> "nil",
          params |-> <<[StartBlock |-> Uint64(data.Words[1]),
                        EndBlock |-> Uint64(data.Words[2]),
                        RootHash |-> data.Words[3],
                        BTCTxHash |-> data.Words[4],
                        BTCTimestamp |-> Uint64(data.Words[5])]>>]

(* manager.go: ValidateOTSSystemTx and its helpers                          *)

validateOTSSubmittedTx_anyStatus(tx, state) ==
    IF state.CurrentBatch = Nil THEN "ErrInvalidTransition"
    ELSE IF DecodeOTSSubmittedTx(tx).err # "nil" THEN DecodeOTSSubmittedTx(tx).err
    ELSE IF DecodeOTSSubmittedTx(tx).params[1].RootHash # state.CurrentBatch[1].RootHash
    THEN "ErrInvalidState"
    ELSE "nil"

validateOTSSubmittedTx(tx, state) ==
    IF state.CurrentBatch = Nil \/ state.CurrentBatch[1].Status # BatchStatusTriggered
    THEN "ErrInvalidTransition"
    ELSE IF DecodeOTSSubmittedTx(tx).err # "nil" THEN DecodeOTSSubmittedTx(tx).err
    ELSE IF DecodeOTSSubmittedTx(tx).params[1].RootHash # state.CurrentBatch[1].RootHash
    THEN "ErrInvalidState"
    ELSE "nil"

validateOTSConfirmedTx(tx, state) ==
    IF state.CurrentBatch = Nil \/ state.CurrentBatch[1].Status # BatchStatusSubmitted
    THEN "ErrInvalidTransition"
    ELSE IF DecodeOTSConfirmedTx(tx).err # "nil" THEN DecodeOTSConfirmedTx(tx).err
    ELSE IF DecodeOTSConfirmedTx(tx).params[1].RootHash # state.CurrentBatch[1].RootHash
    THEN "ErrInvalidState"
    ELSE "nil"

validateAnchorTx_noRange(tx, state) ==
    IF state.CurrentBatch = Nil \/ state.CurrentBatch[1].Status # BatchStatusConfirmed
    THEN "ErrInvalidTransition"
    ELSE IF DecodeCalldata(tx.Data).err # "nil" THEN DecodeCalldata(tx.Data).err
    ELSE IF DecodeCalldata(tx.Data).params[1].RootHash # state.CurrentBatch[1].RootHash
    THEN "ErrInvalidState"
    ELSE "nil"

validateAnchorTx(tx, state) ==
    IF state.CurrentBatch = Nil \/ state.CurrentBatch[1].Status # BatchStatusConfirmed
    THEN "ErrInvalidTransition"
    ELSE IF DecodeCalldata(tx.Data).err # "nil" THEN DecodeCalldata(tx.Data).err
    ELSE IF DecodeCalldata(tx.Data).params[1].RootHash # state.CurrentBatch[1].RootHash
    THEN "ErrInvalidState"
    ELSE IF DecodeCalldata(tx.Data).params[1].StartBlock # state.CurrentBatch[1].StartBlock
            \/ DecodeCalldata(tx.Data).params[1].EndBlock # state.CurrentBatch[1].EndBlock
    THEN "ErrInvalidState"
    ELSE "nil"

\* The dispatch on the selector at the end of ValidateOTSSystemTx.
validateByType(tx, state) ==
    IF IsOTSSubmittedTx(tx) THEN validateOTSSubmittedTx(tx, state)
    ELSE IF IsOTSConfirmedTx(tx) THEN validateOTSConfirmedTx(tx, state)
    ELSE IF IsAnchorTx(tx) THEN validateAnchorTx(tx, state)
    ELSE "nil"

\* The snapshot state is never nil in a snapshot built by NewSnapshot, so the
\* ErrInvalidState return for a nil state has no case here.
ValidateOTSSystemTx(tx, parentHash) ==
    IF ~enabled THEN "nil"
    ELSE IF GetSnapshot(cache, db, parentHash).err # "nil"
    THEN GetSnapshot(cache, db, parentHash).err
    ELSE validateByType(tx, GetSnapshot(cache, db, parentHash).snap[1].State)

-----------------------------------------------------------------------------
(* The blocks the host chain hands to the manager                           *)

\* The validator in turn at a block number: validators alternate.
Validator(number) == 11 + (number % 2)

\* A root other than the zero hash.
OtherRoot == Keccak256Leaf(1)

RootValues == {ZeroHash, OtherRoot}

EventLog(sig, topic, data) ==
    [Address |-> copyrightRegistryAddr, Topics |-> <<sig, topic>>, Data |-> data]

\* The system events a block may carry, in the order they appear in it; the
\* BTC height of a confirmation overflows a uint64 so that its truncation shows.
SystemLogs ==
    <<EventLog(otsSubmittedSig, OtherRoot, <<2>>),
      EventLog(otsSubmittedSig, ZeroHash, <<1>>),
      EventLog(otsConfirmedSig, OtherRoot, <<6, 5, 4>>),
      EventLog(otsConfirmedSig, ZeroHash, <<U64Modulus + 7, 8, 9>>),
      EventLog(anchoredSig, OtherRoot, <<>>), EventLog(anchoredSig, ZeroHash, <<>>)>>

ClaimLogs == <<EventLog(CopyrightClaimedEventSig, 1, <<>>), EventLog(CopyrightClaimedEventSig, 2, <<>>)>>

\* The receipts, one successful receipt per log, of the logs picked from i on.
RECURSIVE Picked(_, _, _)
Picked(logs, picks, i) ==
    IF i > Len(logs) THEN <<>>
    ELSE (IF i \in picks THEN <<[Status |-> ReceiptStatusSuccessful, Logs |-> <<logs[i]>>]>>
          ELSE <<>>) \o Picked(logs, picks, i + 1)

ReceiptsOver(logs, n) ==
    {Picked(logs, picks, 1) : picks \in {p \in SUBSET (1..Len(logs)) : Cardinality(p) <= n}}

\* Receipts of a block: up to MaxLogs of the system events.
BlockReceipts == ReceiptsOver(SystemLogs, MaxLogs)

\* Receipts of a block that carries at most one log, a claim or a system event.
ClaimReceipts == ReceiptsOver(SystemLogs \o ClaimLogs, 1)

\* The time step of a block and whether getHeader finds its parent; without
\* the parent header the step has no effect, so one step stands for all.
HeaderInputs ==
    {[step |-> 0, parentKnown |-> TRUE], [step |-> 24, parentKnown |-> TRUE],
     [step |-> 24, parentKnown |-> FALSE]}

RECURSIVE AllLogs(_)
AllLogs(receipts) ==
    IF receipts = <<>> THEN <<>> ELSE Head(receipts).Logs \o AllLogs(Tail(receipts))

\* manager.go, collectRUIDsForBatch: the RUIDs one block contributes.
BlockRUIDs(receipts) ==
    LET claims == SelectSeq(AllLogs(receipts),
                            LAMBDA l : l.Address = copyrightRegistryAddr
                                       /\ Len(l.Topics) >= 2
                                       /\ l.Topics[1] = CopyrightClaimedEventSig)
    IN  [i \in 1..Len(claims) |-> claims[i].Topics[2]]

RECURSIVE RangeRUIDs(_, _, _)
RangeRUIDs(chain, startBlock, endBlock) ==
    IF startBlock > endBlock THEN <<>>
    ELSE (IF startBlock \in DOMAIN chain THEN chain[startBlock] ELSE <<>>)
         \o RangeRUIDs(chain, startBlock + 1, endBlock)

(* System transactions offered to ValidateOTSSystemTx                       *)

Tx(selector, words) == [Data |-> [Selector |-> selector, Words |-> words]]

\* Block ranges an anchor tx may name; a start word above the uint64 range
\* decodes to its low bits.
BlockRanges ==
    {<<s, e>> \in (1..MaxBlock) \X (1..MaxBlock) : s <= e}
    \cup {<<U64Modulus + 1, e>> : e \in 1..2}

TxSpace ==
    {Tx(<<OTSSubmittedSelector>>, <<r, 1>>) : r \in RootValues}
    \cup {Tx(<<OTSSubmittedSelector>>, <<r>>) : r \in RootValues}
    \cup {Tx(<<OTSConfirmedSelector>>, <<r, 7, 8, 9>>) : r \in RootValues}
    \cup {Tx(<<OTSConfirmedSelector>>, <<r, 7, 8>>) : r \in RootValues}
    \cup {Tx(<<anchorSelector>>, <<g[1], g[2], r, 8, 9>>) : g \in BlockRanges, r \in RootValues}
    \cup {Tx(<<anchorSelector>>, <<1, 1, r, 8>>) : r \in RootValues}
    \cup {Tx(<<>>, <<>>)}

HashSpace == {HeaderHash(n) : n \in 0..MaxBlock}

-----------------------------------------------------------------------------
(* Reading the model state                                                  *)

\* The state of the snapshot of the chain tip: the genesis state before the
\* first block.
TipState ==
    IF tip = 0 \/ GetSnapshot(cache, db, HeaderHash(tip)).err # "nil"
    THEN NewOTSState(enabled)
    ELSE GetSnapshot(cache, db, HeaderHash(tip)).snap[1].State

\* Every snapshot stored in the cache or the database or returned last.
Snapshots ==
    {cache[i].Snap : i \in 1..Len(cache)} \cup {db[h] : h \in DOMAIN db}
    \cup {lastResult[i] : i \in 1..Len(lastResult)}

StatusOf(state) ==
    IF state.CurrentBatch = Nil THEN BatchStatusNone ELSE state.CurrentBatch[1].Status

\* The threads that query the manager while the chain thread writes: one
\* makes the calls that take no lock of the manager, one those that take
\* the read side of its mutex.
Unlocked == "rpc"
Locked == "miner"
Readers == {Unlocked, Locked}

\* The manager's lock and the snapshot manager's lock.
ManagerLock == "m.mu"
SnapshotLock == "sm.mu"
LockNames == {ManagerLock, SnapshotLock}

\* A sync.RWMutex nobody holds or waits for.
FreeLock == [announced |-> <<>>, holds |-> FALSE, active |-> {}, blocked |-> {}]

\* The threads of the host: block processing, block assembly, RPC.
Threads == {"chain", "miner", "rpc"}

\* A thread outside every call.
Idle == [op |-> "idle", pc |-> 0, asked |-> FALSE, held |-> <<>>]

-----------------------------------------------------------------------------
(* The chain: one action, the manager's ProcessBlock on the next block      *)

Init ==
    /\ enabled \in BOOLEAN
    /\ tip = 0
    /\ tipTime = 0
    /\ cache = <<>>
    /\ db = <<>>
    /\ claimed = [n \in 1..MaxBlock |-> <<>>]
    /\ lastResult = Nil
    /\ lastAnchored = Nil
    /\ hadMatch = FALSE
    /\ spent = {}
    /\ st = NewOTSState(enabled)
    /\ lastCall = [op |-> "none", err |-> "nil", before |-> BatchStatusNone]
    /\ query = [op |-> "none"]
    /\ codec = [op |-> "none"]
    /\ held = <<>>
    /\ cacheRefs = <<>>
    /\ durable = <<>>
    /\ lastGet = [op |-> "none"]
    /\ chainDb = [base |-> 0, blocks |-> <<>>]
    /\ rebuilt = [op |-> "none"]
    /\ evaluated = [op |-> "none"]
    /\ mu = [writer |-> FALSE, readers |-> {}]
    /\ writer = [pc |-> "idle"]
    /\ readers = [r \in Readers |-> [pc |-> "idle", got |-> Nil, mid |-> FALSE]]
    /\ committed = {}
    /\ locks = [l \in LockNames |-> FreeLock]
    /\ calls = [t \in Threads |-> Idle]

ProcessBlockOn(receiptSet) ==
    /\ tip < MaxBlock
    /\ \E in \in HeaderInputs, receipts \in receiptSet :
       \E parent \in {TipState} :
       \E header \in {[Number |-> tip + 1, Time |-> tipTime + in.step,
                       Coinbase |-> Validator(tip + 1),
                       Hash |-> HeaderHash(tip + 1), ParentHash |-> HeaderHash(tip)]} :
       \E parentHeader \in {IF in.parentKnown THEN <<[Time |-> tipTime]>> ELSE Nil} :
       \E res \in {ManagerProcessBlock(header, header.ParentHash, parentHeader, receipts)} :
       \E pre \in {beforeAnchor(parent, header, parentHeader, receipts)} :
       \E child \in {IF res.snap = Nil THEN parent ELSE res.snap[1].State} :
       \E chain \in {[claimed EXCEPT ![header.Number] = BlockRUIDs(receipts)]} :
       \E logs \in {RegistryLogs(receipts)} :
            /\ res.err = "nil"
            /\ tip' = header.Number
            /\ tipTime' = header.Time
            /\ cache' = res.cache
            /\ db' = res.db
            /\ lastResult' = res.snap
            /\ claimed' = [n \in DOMAIN chain |->
                              IF n <= child.LastAnchoredBlock THEN <<>> ELSE chain[n]]
            /\ lastAnchored' =
                 IF res.snap # Nil /\ pre.CurrentBatch # Nil /\ child.CurrentBatch = Nil
                 THEN <<[StartBlock |-> pre.CurrentBatch[1].StartBlock,
                         EndBlock |-> pre.CurrentBatch[1].EndBlock,
                         RootHash |-> pre.CurrentBatch[1].RootHash,
                         RUIDs |-> RangeRUIDs(chain, pre.CurrentBatch[1].StartBlock,
                                              pre.CurrentBatch[1].EndBlock)]>>
                 ELSE lastAnchored
            /\ hadMatch' =
                 (/\ parent.CurrentBatch # Nil
                  /\ \E i \in 1..Len(logs) :
                        /\ logs[i].Topics[1] \in {otsSubmittedSig, otsConfirmedSig, anchoredSig}
                        /\ logs[i].Topics[2] = parent.CurrentBatch[1].RootHash)
            /\ spent' =
                 IF parent.CurrentBatch # Nil /\ StatusOf(child) # StatusOf(parent)
                 THEN spent \cup {[Tx |-> tx, TriggerBlock |-> parent.CurrentBatch[1].TriggerBlock] :
                                    tx \in {x \in TxSpace : /\ Len(x.Data.Selector) = 1
                                                            /\ validateByType(x, parent) = "nil"}}
                 ELSE spent
            /\ UNCHANGED <<enabled, st, lastCall, query, codec, snapVars, rebuildVars, evaluated, concVars>>

\* A block of system events.
ProcessBlock == ProcessBlockOn(BlockReceipts)

\* A block with at most one log, which may be a CopyrightClaimed event.
ProcessClaimBlock == ProcessBlockOn(ClaimReceipts)

Next == ProcessBlock

Spec == Init /\ [][Next]_vars

NextClaims == ProcessClaimBlock

SpecClaims == Init /\ [][NextClaims]_vars

-----------------------------------------------------------------------------
(* Direct calls on a free-standing OTSState                                 *)

ArgBlocks == 0..MaxArg

Recorded(op, res) == [op |-> op, err |-> res.err, before |-> StatusOf(st)]

CallTrigger ==
    \E startBlock \in ArgBlocks, endBlock \in ArgBlocks, rootHash \in RootValues :
    \E res \in {Trigger(st, startBlock, endBlock, endBlock + 1, 11, rootHash)} :
        /\ st' = res.state
        /\ lastCall' = Recorded("Trigger", res)
        /\ UNCHANGED <<chainVars, txVars, snapVars, rebuildVars, evaluated, concVars>>

CallMarkSubmitted ==
    \E blockNumber \in ArgBlocks :
    \E res \in {MarkSubmitted(st, 1, blockNumber, 12)} :
        /\ st' = res.state
        /\ lastCall' = Recorded("MarkSubmitted", res)
        /\ UNCHANGED <<chainVars, txVars, snapVars, rebuildVars, evaluated, concVars>>

CallMarkConfirmed ==
    \E blockNumber \in ArgBlocks :
    \E res \in {MarkConfirmed(st, 7, Bytes2Hex(8), 9, blockNumber, 11)} :
        /\ st' = res.state
        /\ lastCall' = Recorded("MarkConfirmed", res)
        /\ UNCHANGED <<chainVars, txVars, snapVars, rebuildVars, evaluated, concVars>>

CallMarkAnchored ==
    \E blockNumber \in ArgBlocks :
    \E res \in {MarkAnchored(st, blockNumber, 12)} :
        /\ st' = res.state
        /\ lastCall' = Recorded("MarkAnchored", res)
        /\ UNCHANGED <<chainVars, txVars, snapVars, rebuildVars, evaluated, concVars>>

NextState == CallTrigger \/ CallMarkSubmitted \/ CallMarkConfirmed \/ CallMarkAnchored

SpecState == Init /\ [][NextState]_vars

-----------------------------------------------------------------------------
(* Properties                                                               *)

LastAnchoredEnd == IF lastAnchored = Nil THEN 0 ELSE lastAnchored[1].EndBlock

\* C1: along the chain lastAnchoredBlock never decreases from a snapshot to
\* its child, and it equals the endBlock of the batch anchored last, or 0 when
\* no batch was anchored.
C1_LastAnchoredBlock ==
    [][/\ TipState'.LastAnchoredBlock >= TipState.LastAnchoredBlock
       /\ TipState'.LastAnchoredBlock = LastAnchoredEnd']_vars

\* Two batches were anchored; the second began after block 1.
C1_Witness ==
    /\ lastAnchored # Nil
    /\ lastAnchored[1].StartBlock > 1
    /\ TipState.LastAnchoredBlock = lastAnchored[1].EndBlock

ObservableStatus == {BatchStatusTriggered, BatchStatusSubmitted, BatchStatusConfirmed}

\* C2: every stored or returned snapshot holds at most one currentBatch, and
\* the status of a present batch is Triggered, Submitted or Confirmed, never
\* Anchored or None.
C2_ObservableStatus ==
    \A snap \in Snapshots :
        /\ Len(snap.State.CurrentBatch) <= 1
        /\ snap.State.CurrentBatch # Nil => snap.State.CurrentBatch[1].Status \in ObservableStatus

\* The block just processed anchored a batch and returned a snapshot.
C2_Witness ==
    /\ lastResult # Nil
    /\ lastAnchored # Nil
    /\ lastResult[1].State.CurrentBatch = Nil
    /\ lastResult[1].Number = tip
    /\ lastResult[1].State.LastAnchoredBlock = lastAnchored[1].EndBlock

\* One lifecycle step, or none, between the states of a parent and a child.
AtMostOneStep(p, c) ==
    \/ c = p
    \/ /\ StatusOf(p) = BatchStatusNone /\ StatusOf(c) = BatchStatusTriggered
    \/ /\ StatusOf(p) = BatchStatusTriggered /\ StatusOf(c) = BatchStatusSubmitted
    \/ /\ StatusOf(p) = BatchStatusSubmitted /\ StatusOf(c) = BatchStatusConfirmed
    \/ /\ StatusOf(p) = BatchStatusConfirmed /\ StatusOf(c) = BatchStatusNone

\* C3: one block moves the batch by at most one lifecycle step, whatever
\* events it carries.
C3_OneStepPerBlock == [][AtMostOneStep(TipState, TipState')]_vars

\* C4: a block in which no OTSSubmitted, OTSConfirmed or Anchored event
\* carries the rootHash of the current batch leaves the state of the batch
\* as it was.
C4_MismatchIgnored ==
    [][(tip' # tip /\ TipState.CurrentBatch # Nil /\ ~hadMatch') => TipState' = TipState]_vars

\* C5: the rootHash of an anchored batch is the Merkle root of the RUIDs
\* claimed in the blocks of its range.
C5_RootIsMerkleRoot ==
    lastAnchored # Nil =>
        lastAnchored[1].RootHash = buildMerkleRoot(SortRUIDs(lastAnchored[1].RUIDs))

Established(op) ==
    CASE op = "Trigger"       -> BatchStatusTriggered
      [] op = "MarkSubmitted" -> BatchStatusSubmitted
      [] op = "MarkConfirmed" -> BatchStatusConfirmed
      [] op = "MarkAnchored"  -> BatchStatusAnchored
      [] OTHER                -> BatchStatusNone

\* C6: a direct call succeeds only if the status before it can transition to
\* the status the call establishes, and the status of the state changes only
\* by a successful call and only along the transition relation.
C6_OnlyValidTransitions ==
    [][/\ (lastCall'.err = "nil" /\ lastCall'.op # "none")
            => CanTransitionTo(lastCall'.before, Established(lastCall'.op))
       /\ StatusOf(st') # StatusOf(st)
            => /\ lastCall'.err = "nil"
               /\ CanTransitionTo(StatusOf(st), StatusOf(st'))]_vars

\* A batch went through the whole lifecycle by direct calls.
C6_Witness ==
    /\ lastCall.op = "MarkAnchored"
    /\ lastCall.err = "nil"
    /\ lastCall.before = BatchStatusConfirmed
    /\ st.CurrentBatch = Nil

\* C7: a batch created at block N from a parent with lastAnchoredBlock = L
\* has startBlock = L + 1, endBlock = N - 1 and triggerBlock = N, and every
\* current batch has startBlock <= endBlock < triggerBlock.
C7_BatchRange ==
    [][/\ (TipState.CurrentBatch = Nil /\ TipState'.CurrentBatch # Nil)
            => /\ TipState'.CurrentBatch[1].StartBlock = TipState.LastAnchoredBlock + 1
               /\ TipState'.CurrentBatch[1].EndBlock = tip' - 1
               /\ TipState'.CurrentBatch[1].TriggerBlock = tip'
       /\ TipState'.CurrentBatch # Nil
            => /\ TipState'.CurrentBatch[1].StartBlock <= TipState'.CurrentBatch[1].EndBlock
               /\ TipState'.CurrentBatch[1].EndBlock < TipState'.CurrentBatch[1].TriggerBlock]_vars

\* A second batch was created, starting after the first anchored range.
C7_Witness ==
    /\ TipState.CurrentBatch # Nil
    /\ TipState.LastAnchoredBlock > 0
    /\ TipState.CurrentBatch[1].StartBlock = TipState.LastAnchoredBlock + 1
    /\ TipState.CurrentBatch[1].TriggerBlock = tip

\* C8: while a batch is current its rootHash, startBlock, endBlock,
\* triggerBlock and triggerNode do not change, nor do lastAnchoredBlock and
\* enabled; submitting leaves the confirmation fields alone and confirming
\* leaves the submission fields alone.
C8_BatchFrame ==
    [][(TipState.CurrentBatch # Nil /\ TipState'.CurrentBatch # Nil) =>
        LET b == TipState.CurrentBatch[1]
            c == TipState'.CurrentBatch[1]
        IN  /\ c.RootHash = b.RootHash
            /\ c.StartBlock = b.StartBlock
            /\ c.EndBlock = b.EndBlock
            /\ c.TriggerBlock = b.TriggerBlock
            /\ c.TriggerNode = b.TriggerNode
            /\ TipState'.LastAnchoredBlock = TipState.LastAnchoredBlock
            /\ TipState'.Enabled = TipState.Enabled
            /\ c.AnchoredAt = b.AnchoredAt /\ c.AnchoredBy = b.AnchoredBy
            /\ c.Status = BatchStatusSubmitted
                 => /\ c.BTCBlockHeight = b.BTCBlockHeight /\ c.BTCTxID = b.BTCTxID
                    /\ c.BTCTimestamp = b.BTCTimestamp
                    /\ c.ConfirmedAt = b.ConfirmedAt /\ c.ConfirmedBy = b.ConfirmedBy
            /\ b.Status # BatchStatusTriggered
                 => /\ c.OTSDigest = b.OTSDigest /\ c.SubmittedAt = b.SubmittedAt
                    /\ c.SubmittedBy = b.SubmittedBy]_vars

\* A batch was triggered, submitted and confirmed by three different blocks.
C8_Witness ==
    /\ TipState.CurrentBatch # Nil
    /\ TipState.CurrentBatch[1].Status = BatchStatusConfirmed
    /\ TipState.CurrentBatch[1].TriggerBlock < TipState.CurrentBatch[1].SubmittedAt
    /\ TipState.CurrentBatch[1].SubmittedAt < TipState.CurrentBatch[1].ConfirmedAt

RecognizedTxs ==
    {tx \in TxSpace : /\ Len(tx.Data.Selector) = 1
                      /\ tx.Data.Selector[1] \in {OTSSubmittedSelector, OTSConfirmedSelector,
                                                   anchorSelector}}

ExpectedStatus(selector) ==
    CASE selector = OTSSubmittedSelector -> BatchStatusTriggered
      [] selector = OTSConfirmedSelector -> BatchStatusSubmitted
      [] selector = anchorSelector       -> BatchStatusConfirmed

\* The word of the calldata that carries the rootHash, 0 when the calldata
\* is too short to decode.
RootWord(data) ==
    CASE data.Selector[1] = OTSSubmittedSelector -> IF Len(data.Words) >= 2 THEN 1 ELSE 0
      [] data.Selector[1] = OTSConfirmedSelector -> IF Len(data.Words) >= 4 THEN 1 ELSE 0
      [] data.Selector[1] = anchorSelector       -> IF Len(data.Words) >= 5 THEN 3 ELSE 0

StoredFor(hash) ==
    IF CacheContains(cache, hash) THEN <<cache[CachePeek(cache, hash)].Snap>>
    ELSE IF hash \in DOMAIN db THEN <<db[hash]>>
    ELSE Nil

Acceptable(tx, hash) ==
    /\ StoredFor(hash) # Nil
    /\ StoredFor(hash)[1].State.CurrentBatch # Nil
    /\ LET batch == StoredFor(hash)[1].State.CurrentBatch[1]
       IN  /\ batch.Status = ExpectedStatus(tx.Data.Selector[1])
           /\ RootWord(tx.Data) # 0
           /\ tx.Data.Words[RootWord(tx.Data)] = batch.RootHash
           /\ tx.Data.Selector[1] = anchorSelector
                => /\ tx.Data.Words[1] % U64Modulus = batch.StartBlock
                   /\ tx.Data.Words[2] % U64Modulus = batch.EndBlock

\* C9: with OTS enabled, a tx with a recognized selector is accepted exactly
\* when a snapshot exists for parentHash, its batch has the status the
\* selector expects, the decoded rootHash is the batch's and, for anchor, the
\* decoded block range is the batch's.
C9_ValidateExact ==
    enabled =>
        \A tx \in RecognizedTxs, hash \in HashSpace :
            (ValidateOTSSystemTx(tx, hash) = "nil") <=> Acceptable(tx, hash)

\* An anchor tx naming the range and root of a confirmed batch is accepted.
C9_Witness ==
    /\ enabled
    /\ TipState.CurrentBatch # Nil
    /\ TipState.CurrentBatch[1].Status = BatchStatusConfirmed
    /\ \E tx \in RecognizedTxs :
          /\ tx.Data.Selector[1] = anchorSelector
          /\ ValidateOTSSystemTx(tx, HeaderHash(tip)) = "nil"
    /\ \E tx \in RecognizedTxs :
          /\ tx.Data.Selector[1] = anchorSelector
          /\ tx.Data.Words[3] = TipState.CurrentBatch[1].RootHash
          /\ ValidateOTSSystemTx(tx, HeaderHash(tip)) = "ErrInvalidState"

\* C10: a system tx whose target status the batch has left is rejected
\* against the snapshot of every later block of the chain.
C10_DuplicatesRejected ==
    \A e \in spent : ValidateOTSSystemTx(e.Tx, HeaderHash(tip)) # "nil"

\* C10 as amended: such a tx is rejected against every later snapshot in
\* which that batch is still current or no batch is current, and an anchor tx
\* is rejected against every later snapshot.
C10_DuplicatesRejectedForBatch ==
    \A e \in spent :
        (\/ IsAnchorTx(e.Tx)
         \/ TipState.CurrentBatch = Nil
         \/ TipState.CurrentBatch[1].TriggerBlock = e.TriggerBlock)
            => ValidateOTSSystemTx(e.Tx, HeaderHash(tip)) # "nil"

\* A batch was anchored by an anchor tx, and a later batch with the same
\* rootHash is Confirmed, the status an anchor tx expects.
C10_Witness ==
    /\ TipState.CurrentBatch # Nil
    /\ TipState.CurrentBatch[1].Status = BatchStatusConfirmed
    /\ \E e \in spent : /\ IsAnchorTx(e.Tx)
                        /\ e.TriggerBlock < TipState.CurrentBatch[1].TriggerBlock
                        /\ e.Tx.Data.Words[3] = TipState.CurrentBatch[1].RootHash

\* Addresses a system tx may originate from: the two validators and an
\* address that is no validator.
Senders == {Validator(0), Validator(1), Validator(1) + 1}

\* The tx with its originating address, as the signer recovers it.
WithSender(tx, sender) == [Data |-> tx.Data, From |-> sender]

\* C11: with OTS enabled, a system tx of a recognized kind whose originating
\* address is not the coinbase of the block that contains it is rejected.
C11_SenderIsCoinbase ==
    enabled =>
        \A tx \in RecognizedTxs, sender \in Senders :
            sender # Validator(tip + 1)
                => ValidateOTSSystemTx(WithSender(tx, sender), HeaderHash(tip)) # "nil"

\* The next block of the chain as one node sees it: its header, and the
\* parent header when the node's getHeader finds it.
HeaderAt(in) ==
    [Number |-> tip + 1, Time |-> tipTime + in.step, Coinbase |-> Validator(tip + 1),
     Hash |-> HeaderHash(tip + 1), ParentHash |-> HeaderHash(tip)]

ParentHeaderAt(in) == IF in.parentKnown THEN <<[Time |-> tipTime]>> ELSE Nil

\* The child state a node derives from the tip snapshot for that block.
ChildState(in, receipts) ==
    applyTransitions(TipState, HeaderAt(in), ParentHeaderAt(in), receipts)

\* C12: two nodes that apply the same header and receipts to the same parent
\* snapshot derive the same child state, whether or not each of them can
\* look up the parent header.
C12_ChildIsFunctionOfBlock ==
    (enabled /\ tip < MaxBlock) =>
        \A a \in HeaderInputs, b \in HeaderInputs, receipts \in BlockReceipts :
            a.step = b.step => ChildState(a, receipts) = ChildState(b, receipts)

-----------------------------------------------------------------------------
(* ots_systx.go and validator.go: building, decoding and validating system  *)
(* transactions.  A 32-byte word is the number its bytes denote big-endian, *)
(* so a uint64 right-aligned in a word is the word of the same number.      *)

\* config.ContractAddress, which the manager hands to systx.NewBuilder.
contractAddress == copyrightRegistryAddr

\* builder.go: the anchor selector, computed a second time from the same
\* signature string.
anchorSig == anchorSelector

NewTransaction(nonce, to, amount, gasLimit, gasPrice, data) ==
    [Nonce |-> nonce, To |-> <<to>>, Value |-> amount, Gas |-> gasLimit,
     GasPrice |-> gasPrice, Data |-> data]

Calldata(selector, words) == [Selector |-> <<selector>>, Words |-> words]

\* int64(x) of a uint64: the upper half of the range is negative.
Int64(x) == IF x < U64Modulus \div 2 THEN x ELSE x - U64Modulus

\* common.BigToHash(b): the bytes of |b|, right-aligned; the sign is dropped.
BigToHash(b) == IF b < 0 THEN 0 - b ELSE b

\* common.HexToHash of the hex string of a word gives back the word.
HexToHash(txid) == IF txid = <<>> THEN ZeroHash ELSE txid[1]

btcTxIDToBytes32Local(txid) == IF txid = <<>> THEN ZeroHash ELSE HexToHash(txid)

BuildOTSSubmittedTx(params, coinbase, nonce, gasLimit) ==
    IF params = Nil THEN [err |-> "ErrInvalidOTSTx", tx |-> Nil]
    ELSE [err |-> "nil",
          tx |-> <<NewTransaction(nonce, contractAddress, 0, gasLimit, 0,
                     Calldata(OTSSubmittedSelector,
                              <<params[1].RootHash, params[1].OTSDigest>>))>>]

BuildOTSConfirmedTx(params, coinbase, nonce, gasLimit) ==
    IF params = Nil THEN [err |-> "ErrInvalidOTSTx", tx |-> Nil]
    ELSE [err |-> "nil",
          tx |-> <<NewTransaction(nonce, contractAddress, 0, gasLimit, 0,
                     Calldata(OTSConfirmedSelector,
                              <<params[1].RootHash,
                                BigToHash(Int64(params[1].BTCBlockHeight)),
                                params[1].BTCTxID,
                                BigToHash(Int64(params[1].BTCTimestamp))>>))>>]

BuildAnchorTx(candidate, coinbase, nonce, gasLimit) ==
    IF candidate = Nil THEN [err |-> "ErrInvalidOTSTx", tx |-> Nil]
    ELSE [err |-> "nil",
          tx |-> <<NewTransaction(nonce, contractAddress, 0, gasLimit, 0,
                     Calldata(anchorSelector,
                              <<candidate[1].StartBlock, candidate[1].EndBlock,
                                candidate[1].RootHash,
                                btcTxIDToBytes32Local(candidate[1].BTCTxID),
                                candidate[1].BTCTimestamp>>))>>]

\* validator.go: Validator.ValidateSystemTx, with the recipient checked first.
ValidatorValidateSystemTx_recipientFirst(tx, coinbase) ==
    IF tx.To = Nil \/ tx.To # <<contractAddress>> THEN "ErrInvalidRecipient"
    ELSE IF tx.GasPrice # 0 THEN "ErrNotSystemTx"
    ELSE IF DataLen(tx.Data) < 4 THEN "ErrInvalidCalldata"
    ELSE IF tx.Data.Selector[1] # anchorSig THEN "ErrInvalidCalldata"
    ELSE "nil"

\* validator.go: Validator.ValidateSystemTx.
ValidatorValidateSystemTx(tx, coinbase) ==
    IF tx.GasPrice # 0 THEN "ErrNotSystemTx"
    ELSE IF tx.To = Nil \/ tx.To # <<contractAddress>> THEN "ErrInvalidRecipient"
    ELSE IF DataLen(tx.Data) < 4 THEN "ErrInvalidCalldata"
    ELSE IF tx.Data.Selector[1] # anchorSig THEN "ErrInvalidCalldata"
    ELSE "nil"

(* Inputs of the systx calls                                                *)

\* uint64 values around zero, the int64 sign boundary and the maximum.
U64Values ==
    {0, 1, U64Modulus \div 2 - 1, U64Modulus \div 2, U64Modulus \div 2 + 1, U64Modulus - 1}

\* Hex strings of BTC transaction ids, and the empty string.
TxIDStrings == {<<>>, Bytes2Hex(OtherRoot), Bytes2Hex(OtherRoot + 1)}

SubmittedParams == [RootHash : RootValues, OTSDigest : {ZeroHash, OtherRoot + 1}]

ConfirmedParams ==
    [RootHash : RootValues, BTCBlockHeight : U64Values, BTCTxID : {OtherRoot + 1},
     BTCTimestamp : U64Values]

Candidates ==
    [RootHash : RootValues, StartBlock : {1, U64Modulus - 1}, EndBlock : {1, U64Modulus - 1},
     BTCBlockHeight : {1}, BTCTxID : TxIDStrings, BTCTimestamp : U64Values]

\* A selector that is none of the three.
unknownSelector == anchorSelector + 1

\* Calldata of every length from empty to one word more than the longest
\* call, under every selector.
RawData ==
    {[Selector |-> <<>>, Words |-> <<>>]}
    \cup {[Selector |-> <<sel>>, Words |-> [i \in 1..n |-> i]] :
            sel \in {OTSSubmittedSelector, OTSConfirmedSelector, anchorSelector, unknownSelector},
            n \in 0..(MaxWords + 1)}

RawTxs ==
    [Nonce : {0}, To : {Nil, <<contractAddress>>, <<contractAddress + 1>>}, Value : {0},
     Gas : {0}, GasPrice : {0, 1}, Data : RawData]

CallBuildOTSSubmittedTx ==
    \E params \in SubmittedParams, nonce \in 0..1 :
    \E built \in {BuildOTSSubmittedTx(<<params>>, Validator(1), nonce, nonce + 1)} :
        /\ codec' = [op |-> "BuildOTSSubmittedTx", params |-> params, nonce |-> nonce,
                     tx |-> built.tx[1], decoded |-> DecodeOTSSubmittedTx(built.tx[1])]
        /\ UNCHANGED <<chainVars, callVars, query, snapVars, rebuildVars, evaluated, concVars>>

CallBuildOTSConfirmedTx ==
    \E params \in ConfirmedParams :
    \E built \in {BuildOTSConfirmedTx(<<params>>, Validator(1), 0, 1)} :
        /\ codec' = [op |-> "BuildOTSConfirmedTx", params |-> params, nonce |-> 0,
                     tx |-> built.tx[1], decoded |-> DecodeOTSConfirmedTx(built.tx[1])]
        /\ UNCHANGED <<chainVars, callVars, query, snapVars, rebuildVars, evaluated, concVars>>

CallBuildAnchorTx ==
    \E candidate \in Candidates :
    \E built \in {BuildAnchorTx(<<candidate>>, Validator(1), 0, 1)} :
        /\ codec' = [op |-> "BuildAnchorTx", params |-> candidate, nonce |-> 0,
                     tx |-> built.tx[1], decoded |-> DecodeCalldata(built.tx[1].Data)]
        /\ UNCHANGED <<chainVars, callVars, query, snapVars, rebuildVars, evaluated, concVars>>

CallValidateSystemTx ==
    \E tx \in RawTxs, coinbase \in Senders :
        /\ codec' = [op |-> "ValidateSystemTx", tx |-> tx, coinbase |-> coinbase,
                     err |-> ValidatorValidateSystemTx(tx, coinbase)]
        /\ UNCHANGED <<chainVars, callVars, query, snapVars, rebuildVars, evaluated, concVars>>

CallDecode ==
    \E data \in RawData :
        /\ codec' = [op |-> "Decode", data |-> data,
                     submitted |-> DecodeOTSSubmittedTx([Data |-> data]).err,
                     confirmed |-> DecodeOTSConfirmedTx([Data |-> data]).err,
                     anchor |-> DecodeCalldata(data).err]
        /\ UNCHANGED <<chainVars, callVars, query, snapVars, rebuildVars, evaluated, concVars>>

NextCodec ==
    \/ CallBuildOTSSubmittedTx
    \/ CallBuildOTSConfirmedTx
    \/ CallBuildAnchorTx
    \/ CallValidateSystemTx
    \/ CallDecode

SpecCodec == Init /\ [][NextCodec]_vars

\* C14: decoding the calldata an encoder produced returns the encoded
\* parameters, for each of the three calls and every uint64, and every uint64
\* occupies its word right-aligned.
C14_RoundTrip ==
    /\ codec.op = "BuildOTSSubmittedTx"
         => /\ codec.decoded.err = "nil"
            /\ codec.decoded.params[1] = codec.params
    /\ codec.op = "BuildOTSConfirmedTx"
         => /\ codec.decoded.err = "nil"
            /\ codec.decoded.params[1] = codec.params
            /\ codec.tx.Data.Words[2] = codec.params.BTCBlockHeight
            /\ codec.tx.Data.Words[4] = codec.params.BTCTimestamp
    /\ codec.op = "BuildAnchorTx"
         => /\ codec.decoded.err = "nil"
            /\ codec.decoded.params[1] =
                 [StartBlock |-> codec.params.StartBlock, EndBlock |-> codec.params.EndBlock,
                  RootHash |-> codec.params.RootHash,
                  BTCTxHash |-> HexToHash(codec.params.BTCTxID),
                  BTCTimestamp |-> codec.params.BTCTimestamp]

KnownSelectors == {OTSSubmittedSelector, OTSConfirmedSelector, anchorSelector}

\* The calldata length of each call: the selector and its 32-byte words.
CallLen(selector) ==
    CASE selector = OTSSubmittedSelector -> 4 + 32 * 2
      [] selector = OTSConfirmedSelector -> 4 + 32 * 4
      [] selector = anchorSelector       -> 4 + 32 * 5

HasKnownSelector(data) == DataLen(data) >= 4 /\ data.Selector[1] \in KnownSelectors

\* C15: Validator.ValidateSystemTx accepts a tx exactly when gasPrice = 0,
\* to = contractAddress, the data starts with one of the three selectors and
\* is at least as long as that call.
C15_ValidatorAccepts ==
    codec.op = "ValidateSystemTx" =>
        ((codec.err = "nil") <=>
            /\ codec.tx.GasPrice = 0
            /\ codec.tx.To = <<contractAddress>>
            /\ HasKnownSelector(codec.tx.Data)
            /\ DataLen(codec.tx.Data) >= CallLen(codec.tx.Data.Selector[1]))

\* C16: Validator.ValidateSystemTx reports the first failing check: a
\* non-zero gasPrice gives ErrNotSystemTx whatever the rest; otherwise a nil
\* or wrong recipient gives ErrInvalidRecipient; otherwise data shorter than
\* 4 bytes or with none of the known selectors gives ErrInvalidCalldata.
C16_FirstFailingCheck ==
    codec.op = "ValidateSystemTx" =>
        /\ codec.tx.GasPrice # 0 => codec.err = "ErrNotSystemTx"
        /\ (codec.tx.GasPrice = 0 /\ codec.tx.To # <<contractAddress>>)
             => codec.err = "ErrInvalidRecipient"
        /\ (codec.tx.GasPrice = 0 /\ codec.tx.To = <<contractAddress>>
                /\ ~HasKnownSelector(codec.tx.Data))
             => codec.err = "ErrInvalidCalldata"

\* A tx that fails every check was reported for its gasPrice.
C16_Witness ==
    /\ codec.op = "ValidateSystemTx"
    /\ codec.tx.GasPrice # 0
    /\ codec.tx.To = Nil
    /\ DataLen(codec.tx.Data) < 4
    /\ codec.err = "ErrNotSystemTx"

\* C17: each decoder succeeds exactly on calldata of the length of its call
\* that starts with its selector.
C17_DecodersExact ==
    codec.op = "Decode" =>
        /\ (codec.submitted = "nil") <=>
              /\ matchSelector(codec.data, OTSSubmittedSelector)
              /\ DataLen(codec.data) = CallLen(OTSSubmittedSelector)
        /\ (codec.confirmed = "nil") <=>
              /\ matchSelector(codec.data, OTSConfirmedSelector)
              /\ DataLen(codec.data) = CallLen(OTSConfirmedSelector)
        /\ (codec.anchor = "nil") <=>
              /\ matchSelector(codec.data, anchorSelector)
              /\ DataLen(codec.data) = CallLen(anchorSelector)

-----------------------------------------------------------------------------
(* manager.go: GetSystemTransactions                                        *)

\* config.SystemTxGasLimit.
systemTxGasLimit == 100000

\* The first 32 ASCII bytes of a string, as a word: they spell the first half
\* of a hex txid, so txids that share that half give the same word, and the
\* word is no txid.
asciiBase == 3000

AsciiBytes32(str) == IF str = <<>> THEN ZeroHash ELSE asciiBase + (str[1] \div 2)

\* An OTS client: what its Stamp and CheckConfirmation calls return.
OTSClient(stampFails, checkFails, confirmed) ==
    [stampErr |-> stampFails, digest |-> OtherRoot + 1, checkErr |-> checkFails,
     result |-> [Confirmed |-> confirmed, BTCBlockHeight |-> 7,
                 BTCTxID |-> Bytes2Hex(OtherRoot), BTCTimestamp |-> 9]]

tryBuildOTSSubmittedTx(state, coinbase, nonce, otsClient) ==
    IF state.CurrentBatch = Nil \/ state.CurrentBatch[1].Status # BatchStatusTriggered
    THEN [err |-> "nil", tx |-> Nil]
    ELSE IF otsClient.stampErr THEN [err |-> "stamp", tx |-> Nil]
    ELSE BuildOTSSubmittedTx(<<[RootHash |-> state.CurrentBatch[1].RootHash,
                                OTSDigest |-> otsClient.digest]>>,
                             coinbase, nonce, systemTxGasLimit)

tryBuildOTSConfirmedTx_unconfirmed(state, coinbase, nonce, otsClient) ==
    IF state.CurrentBatch = Nil \/ state.CurrentBatch[1].Status # BatchStatusSubmitted
    THEN [err |-> "nil", tx |-> Nil]
    ELSE IF otsClient.checkErr THEN [err |-> "check", tx |-> Nil]
    ELSE BuildOTSConfirmedTx(<<[RootHash |-> state.CurrentBatch[1].RootHash,
                                BTCBlockHeight |-> otsClient.result.BTCBlockHeight,
                                BTCTxID |-> AsciiBytes32(otsClient.result.BTCTxID),
                                BTCTimestamp |-> otsClient.result.BTCTimestamp]>>,
                             coinbase, nonce, systemTxGasLimit)

tryBuildOTSConfirmedTx(state, coinbase, nonce, otsClient) ==
    IF state.CurrentBatch = Nil \/ state.CurrentBatch[1].Status # BatchStatusSubmitted
    THEN [err |-> "nil", tx |-> Nil]
    ELSE IF otsClient.checkErr THEN [err |-> "check", tx |-> Nil]
    ELSE IF ~otsClient.result.Confirmed THEN [err |-> "nil", tx |-> Nil]
    ELSE BuildOTSConfirmedTx(<<[RootHash |-> state.CurrentBatch[1].RootHash,
                                BTCBlockHeight |-> otsClient.result.BTCBlockHeight,
                                BTCTxID |-> AsciiBytes32(otsClient.result.BTCTxID),
                                BTCTimestamp |-> otsClient.result.BTCTimestamp]>>,
                             coinbase, nonce, systemTxGasLimit)

\* An anchor tx whose range ends at the block that triggered the batch.
buildAnchorTx_toTrigger(state, coinbase, nonce) ==
    IF state.CurrentBatch = Nil \/ state.CurrentBatch[1].Status # BatchStatusConfirmed
    THEN [err |-> "nil", tx |-> Nil]
    ELSE BuildAnchorTx(<<[RootHash |-> state.CurrentBatch[1].RootHash,
                          StartBlock |-> state.CurrentBatch[1].StartBlock,
                          EndBlock |-> state.CurrentBatch[1].TriggerBlock,
                          BTCBlockHeight |-> state.CurrentBatch[1].BTCBlockHeight,
                          BTCTxID |-> state.CurrentBatch[1].BTCTxID,
                          BTCTimestamp |-> state.CurrentBatch[1].BTCTimestamp]>>,
                       coinbase, nonce, systemTxGasLimit)

buildAnchorTx(state, coinbase, nonce) ==
    IF state.CurrentBatch = Nil \/ state.CurrentBatch[1].Status # BatchStatusConfirmed
    THEN [err |-> "nil", tx |-> Nil]
    ELSE BuildAnchorTx(<<[RootHash |-> state.CurrentBatch[1].RootHash,
                          StartBlock |-> state.CurrentBatch[1].StartBlock,
                          EndBlock |-> state.CurrentBatch[1].EndBlock,
                          BTCBlockHeight |-> state.CurrentBatch[1].BTCBlockHeight,
                          BTCTxID |-> state.CurrentBatch[1].BTCTxID,
                          BTCTimestamp |-> state.CurrentBatch[1].BTCTimestamp]>>,
                       coinbase, nonce, systemTxGasLimit)

\* The txs a build attempt contributes: none on an error or a nil tx.
Appended(built) == IF built.err # "nil" THEN <<>> ELSE built.tx

\* otsClient is <<>> when no client is set.
GetSystemTransactions(parentHash, coinbase, nonce, otsClient) ==
    IF ~enabled THEN [txs |-> <<>>, cache |-> cache]
    ELSE LET got == GetSnapshot(cache, db, parentHash)
         IN  IF got.err # "nil" THEN [txs |-> <<>>, cache |-> got.cache]
             ELSE IF got.snap[1].State.CurrentBatch = Nil
             THEN [txs |-> <<>>, cache |-> got.cache]
             ELSE LET state == got.snap[1].State
                      status == state.CurrentBatch[1].Status
                  IN  [cache |-> got.cache,
                       txs |->
                         CASE status = BatchStatusTriggered ->
                                IF otsClient = Nil THEN <<>>
                                ELSE Appended(tryBuildOTSSubmittedTx(state, coinbase, nonce,
                                                                     otsClient[1]))
                           [] status = BatchStatusSubmitted ->
                                IF otsClient = Nil THEN <<>>
                                ELSE Appended(tryBuildOTSConfirmedTx(state, coinbase, nonce,
                                                                     otsClient[1]))
                           [] status = BatchStatusConfirmed ->
                                Appended(buildAnchorTx(state, coinbase, nonce))
                           [] OTHER -> <<>>]

\* The clients a node may run: none, one whose calls fail, one that stamps
\* but sees no confirmation yet, one that stamps and sees the confirmation.
Clients ==
    {Nil, <<OTSClient(TRUE, TRUE, FALSE)>>, <<OTSClient(FALSE, FALSE, FALSE)>>,
     <<OTSClient(FALSE, FALSE, TRUE)>>}

\* getNonce of the host chain: the next nonce of an address.
getNonce(addr) == addr - Validator(0)

\* Blocks with at most one system event.
SingleLogReceipts == ReceiptsOver(SystemLogs, 1)

ProcessSingleLogBlock == ProcessBlockOn(SingleLogReceipts)

CallGetSystemTransactions ==
    \E parentHash \in {HeaderHash(tip), HeaderHash(0)}, otsClient \in Clients :
    \E coinbase \in {Validator(tip + 1)} :
    \E res \in {GetSystemTransactions(parentHash, coinbase, getNonce(coinbase), otsClient)} :
        /\ query' = [op |-> "GetSystemTransactions", parentHash |-> parentHash,
                     coinbase |-> coinbase, otsClient |-> otsClient,
                     parent |-> StoredFor(parentHash), txs |-> res.txs,
                     verdicts |-> [i \in 1..Len(res.txs) |->
                                     ValidateOTSSystemTx(res.txs[i], parentHash)]]
        /\ cache' = res.cache
        /\ UNCHANGED <<enabled, tip, tipTime, db, claimed, lastResult, lastAnchored,
                       hadMatch, spent, callVars, codec, snapVars, rebuildVars, evaluated, concVars>>

NextSysTx == ProcessSingleLogBlock \/ CallGetSystemTransactions

SpecSysTx == Init /\ [][NextSysTx]_vars

\* The selector of the tx GetSystemTransactions owes for a parent snapshot
\* and a client, <<>> when it owes none.
OwedSelector(parent, otsClient) ==
    IF ~enabled \/ parent = Nil THEN Nil
    ELSE IF parent[1].State.CurrentBatch = Nil THEN Nil
    ELSE LET status == parent[1].State.CurrentBatch[1].Status
         IN  IF status = BatchStatusTriggered /\ otsClient # Nil /\ ~otsClient[1].stampErr
             THEN <<OTSSubmittedSelector>>
             ELSE IF /\ status = BatchStatusSubmitted /\ otsClient # Nil
                     /\ ~otsClient[1].checkErr /\ otsClient[1].result.Confirmed
             THEN <<OTSConfirmedSelector>>
             ELSE IF status = BatchStatusConfirmed THEN <<anchorSelector>>
             ELSE Nil

\* C13: GetSystemTransactions returns at most one tx; it returns an
\* otsSubmitted tx exactly for a Triggered batch with a client whose Stamp
\* succeeds, an otsConfirmed tx exactly for a Submitted batch with a client
\* that reports the confirmation, an anchor tx exactly for a Confirmed batch,
\* and none when OTS is disabled, the parent snapshot is missing, there is no
\* batch or the client call fails; a returned tx has to = contractAddress,
\* value 0, gasPrice 0, gas = systemTxGasLimit and nonce = getNonce(coinbase).
C13_SystemTransactions ==
    query.op = "GetSystemTransactions" =>
        /\ Len(query.txs) <= 1
        /\ [i \in 1..Len(query.txs) |-> query.txs[i].Data.Selector[1]]
              = OwedSelector(query.parent, query.otsClient)
        /\ \A i \in 1..Len(query.txs) :
              /\ query.txs[i].To = <<contractAddress>>
              /\ query.txs[i].Value = 0
              /\ query.txs[i].GasPrice = 0
              /\ query.txs[i].Gas = systemTxGasLimit
              /\ query.txs[i].Nonce = getNonce(query.coinbase)

\* Calls that returned an anchor tx for a Confirmed batch.
C13_Witness ==
    /\ query.op = "GetSystemTransactions"
    /\ Len(query.txs) = 1
    /\ IsAnchorTx(query.txs[1])
    /\ query.parent[1].State.CurrentBatch[1].Status = BatchStatusConfirmed
    /\ query.txs[1].Nonce > 0

-----------------------------------------------------------------------------
(* snapshot.go: the SnapshotManager called directly.  A *Snapshot is an    *)
(* object: a reference and the value it points to.  Two holders of the     *)
(* same reference see each other's writes.  The caller holds one object at *)
(* a time, under the reference CallerRef; an object only the cache points  *)
(* to has the hash it is cached under as its reference; NewRef is the      *)
(* reference of an object at the moment it is allocated.                   *)

MaxEpoch == 2

Object(ref, val) == [Ref |-> ref, Val |-> val]

\* Snapshot.Copy: a new object whose Number, Hash and State (a deep copy)
\* equal those of s.
Copy_sameObject(s, ref) == s

Copy(s, ref) == Object(ref, s.Val)

CallerRef == 0

NewRef == 1

CachedHashes(c) == {c[i].Hash : i \in 1..Len(c)}

\* The references of the entries the cache still holds.
RefsFor(c, refs) == [h \in CachedHashes(c) |-> refs[h]]

\* The reference the cache keeps obj under.
Kept(obj) == IF obj.Ref = NewRef THEN obj.Val.Hash ELSE obj.Ref

\* The caller lets go of the object it held and holds obj instead: an entry
\* that points to obj is shared with the caller, every other entry is an
\* object only the cache points to.
Hold(obj, refs) ==
    [held |-> <<Object(CallerRef, obj.Val)>>,
     refs |-> [h \in DOMAIN refs |-> IF refs[h] = obj.Ref THEN CallerRef ELSE h]]

CacheRemove(c, hash) == SelectSeq(c, LAMBDA e : e.Hash # hash)

ForceStore(c, d, snap) ==
    [cache |-> CacheAdd(c, snap.Hash, snap), db |-> saveToDB(d, snap)]

DeleteSnapshot(c, d, hash) ==
    [cache |-> CacheRemove(c, hash),
     db |-> [h \in DOMAIN d \ {hash} |-> d[h]]]

RECURSIVE FindNearestFrom(_, _, _, _)
\* The loop of FindNearestSnapshot from num downwards; num is a multiple of
\* snapshotPersistInterval, so the uint64 subtraction stops at 0 exactly.
FindNearestFrom(c, d, num, getHash) ==
    IF ~(num > 0)
    THEN [err |-> "nil", snap |-> <<GetGenesisSnapshot(getHash[0])>>,
          cache |-> c, from |-> "genesis"]
    ELSE IF getHash[num] = ZeroHash
    THEN FindNearestFrom(c, d, num - snapshotPersistInterval, getHash)
    ELSE IF CacheContains(c, getHash[num])
    THEN [err |-> "nil", snap |-> <<c[CachePeek(c, getHash[num])].Snap>>,
          cache |-> CacheAdd(c, getHash[num], c[CachePeek(c, getHash[num])].Snap),
          from |-> "cache"]
    ELSE IF loadFromDB(d, getHash[num]).err = "nil"
    THEN [err |-> "nil", snap |-> loadFromDB(d, getHash[num]).snap,
          cache |-> CacheAdd(c, getHash[num], loadFromDB(d, getHash[num]).snap[1]),
          from |-> "db"]
    ELSE FindNearestFrom(c, d, num - snapshotPersistInterval, getHash)

\* A search that gives up after the first multiple.
FindNearestSnapshot_firstOnly(c, d, targetNumber, getHash) ==
    LET num == (targetNumber \div snapshotPersistInterval) * snapshotPersistInterval
    IN  IF num > 0 /\ getHash[num] # ZeroHash /\ GetSnapshot(c, d, getHash[num]).err = "nil"
        THEN FindNearestFrom(c, d, num, getHash)
        ELSE FindNearestFrom(c, d, 0, getHash)

FindNearestSnapshot(c, d, targetNumber, getHash) ==
    FindNearestFrom(c, d,
        (targetNumber \div snapshotPersistInterval) * snapshotPersistInterval, getHash)

\* Block numbers of the snapshots callers build: one that is no multiple of
\* the persist interval, and the multiples up to MaxEpoch.
SnapNumbers == {1} \cup {k * snapshotPersistInterval : k \in 1..MaxEpoch}

SnapHashes == {HeaderHash(n) : n \in SnapNumbers}

Targets ==
    {snapshotPersistInterval - 1, snapshotPersistInterval + 1,
     MaxEpoch * snapshotPersistInterval + 1}

\* The getHash argument, over the block numbers the search can ask for: the
\* canonical hash of a block, or the zero hash for the blocks the caller's
\* chain does not have.
BlockHashOf(unknown) ==
    [n \in {k * snapshotPersistInterval : k \in 0..MaxEpoch} |->
        IF n \in unknown THEN ZeroHash ELSE HeaderHash(n)]

UnknownBlocks == {{}, {MaxEpoch * snapshotPersistInterval}}

\* A caller writes to the snapshot it holds: it gives the state a batch.
Mutated(val) ==
    [val EXCEPT !.State.CurrentBatch =
        <<NewBatchState(1, 1, val.Number, Validator(val.Number), OtherRoot)>>]

\* A caller builds a snapshot of its own.
CallNewSnapshot ==
    \E number \in SnapNumbers :
    \E now \in {Hold(Object(NewRef, NewSnapshot(number, HeaderHash(number),
                                                 NewOTSState(enabled))), cacheRefs)} :
        /\ held' = now.held
        /\ cacheRefs' = now.refs
        /\ lastGet' = [op |-> "NewSnapshot"]
        /\ UNCHANGED <<chainVars, callVars, txVars, durable, rebuildVars, evaluated, concVars>>

\* A caller writes to the object it holds; every holder of that object,
\* the cache included, sees the write.
Mutate ==
    /\ held # <<>>
    /\ held[1].Val.State.CurrentBatch = Nil
    /\ held' = <<Object(held[1].Ref, Mutated(held[1].Val))>>
    /\ cache' = [i \in DOMAIN cache |->
                    IF cacheRefs[cache[i].Hash] = held[1].Ref
                    THEN [cache[i] EXCEPT !.Snap = Mutated(held[1].Val)]
                    ELSE cache[i]]
    /\ lastGet' = [op |-> "Mutate"]
    /\ UNCHANGED <<enabled, tip, tipTime, db, claimed, lastResult, lastAnchored,
                   hadMatch, spent, callVars, txVars, cacheRefs, durable, rebuildVars, evaluated, concVars>>

\* What both store operations do to the manager: the cache gets a copy of
\* the caller's object, the database its encoding.
Stored(res, op) ==
    \E copy \in {Copy(held[1], NewRef)} :
        /\ cache' = res.cache
        /\ db' = res.db
        /\ cacheRefs' = RefsFor(res.cache, (held[1].Val.Hash :> Kept(copy)) @@ cacheRefs)
        /\ lastGet' = [op |-> op]
        /\ UNCHANGED <<enabled, tip, tipTime, claimed, lastResult, lastAnchored,
                       hadMatch, spent, callVars, txVars, held, rebuildVars, evaluated, concVars>>

CallStoreSnapshot ==
    /\ held # <<>>
    /\ held[1].Val.Number \in SnapNumbers
    /\ Stored(StoreSnapshot(cache, db, held[1].Val), "StoreSnapshot")
    /\ durable' = IF held[1].Val.Number % 1024 = 0
                  THEN (held[1].Val.Hash :> held[1].Val) @@ durable
                  ELSE durable

CallForceStore ==
    /\ held # <<>>
    /\ held[1].Val.Number \in SnapNumbers
    /\ Stored(ForceStore(cache, db, held[1].Val), "ForceStore")
    /\ durable' = (held[1].Val.Hash :> held[1].Val) @@ durable

\* What the get operations hand to the caller: a copy of the cached object,
\* a copy of the object just decoded from the database (which the cache
\* keeps), or a new genesis snapshot.
HandedOut(res, from) ==
    \E snap \in {res.snap[1]} :
    \E now \in {CASE from = "cache" ->
                      Hold(Copy(Object(cacheRefs[snap.Hash], snap), NewRef), cacheRefs)
                 [] from = "db" ->
                      Hold(Copy(Object(snap.Hash, snap), NewRef),
                           RefsFor(res.cache, (snap.Hash :> snap.Hash) @@ cacheRefs))
                 [] from = "genesis" ->
                      Hold(Object(NewRef, snap), cacheRefs)} :
        /\ cache' = res.cache
        /\ held' = now.held
        /\ cacheRefs' = now.refs

CallGetSnapshot ==
    \E hash \in SnapHashes :
    \E res \in {GetSnapshot(cache, db, hash)} :
        /\ IF res.err = "nil"
           THEN HandedOut(res, IF CacheContains(cache, hash) THEN "cache" ELSE "db")
           ELSE UNCHANGED <<cache, held, cacheRefs, rebuildVars, evaluated, concVars>>
        /\ lastGet' = [op |-> "GetSnapshot", hash |-> hash, err |-> res.err]
        /\ UNCHANGED <<enabled, tip, tipTime, db, claimed, lastResult, lastAnchored,
                       hadMatch, spent, callVars, txVars, durable, rebuildVars, evaluated, concVars>>

CallFindNearestSnapshot ==
    \E target \in Targets, unknown \in UnknownBlocks :
    \E res \in {FindNearestSnapshot(cache, db, target, BlockHashOf(unknown))} :
        /\ HandedOut(res, res.from)
        /\ lastGet' = [op |-> "FindNearestSnapshot", target |-> target,
                       unknown |-> unknown]
        /\ UNCHANGED <<enabled, tip, tipTime, db, claimed, lastResult, lastAnchored,
                       hadMatch, spent, callVars, txVars, durable, rebuildVars, evaluated, concVars>>

CallDeleteSnapshot ==
    \E hash \in SnapHashes :
    \E res \in {DeleteSnapshot(cache, db, hash)} :
        /\ cache' = res.cache
        /\ db' = res.db
        /\ cacheRefs' = RefsFor(res.cache, cacheRefs)
        /\ durable' = [h \in DOMAIN durable \ {hash} |-> durable[h]]
        /\ lastGet' = [op |-> "DeleteSnapshot"]
        /\ UNCHANGED <<enabled, tip, tipTime, claimed, lastResult, lastAnchored,
                       hadMatch, spent, callVars, txVars, held, rebuildVars, evaluated, concVars>>

\* SnapshotManager.Clear: cache.Purge.
CallClear ==
    /\ cache # <<>>
    /\ cache' = <<>>
    /\ cacheRefs' = <<>>
    /\ lastGet' = [op |-> "Clear"]
    /\ UNCHANGED <<enabled, tip, tipTime, db, claimed, lastResult, lastAnchored,
                   hadMatch, spent, callVars, txVars, held, durable, rebuildVars, evaluated, concVars>>

NextSnap ==
    \/ CallNewSnapshot
    \/ Mutate
    \/ CallStoreSnapshot
    \/ CallForceStore
    \/ CallGetSnapshot
    \/ CallFindNearestSnapshot
    \/ CallDeleteSnapshot
    \/ CallClear

SpecSnap == Init /\ [][NextSnap]_vars

\* What a GetSnapshot for hash returns in the given manager state.
Returned(c, d, hash) == [err |-> GetSnapshot(c, d, hash).err,
                         snap |-> GetSnapshot(c, d, hash).snap]

\* C18: the snapshots the manager is given and hands out are isolated
\* copies: a caller's write to the snapshot it holds (one it built and
\* stored, or one a get operation returned), its currentBatch included,
\* changes for no hash what GetSnapshot returns; and a GetSnapshot fails
\* with ErrSnapshotNotFound exactly when the hash is in neither the cache
\* nor the database.
C18_IsolatedCopies ==
    [][/\ lastGet'.op = "Mutate" =>
            \A hash \in SnapHashes :
                Returned(cache', db', hash) = Returned(cache, db, hash)
       /\ lastGet'.op = "GetSnapshot" =>
            /\ (lastGet'.err = "ErrSnapshotNotFound")
                   <=> (~CacheContains(cache, lastGet'.hash) /\ lastGet'.hash \notin DOMAIN db)
            /\ lastGet'.err \in {"nil", "ErrSnapshotNotFound"}
            /\ lastGet'.err = "nil" =>
                   /\ held'[1].Val.Hash = lastGet'.hash
                   /\ held'[1].Val = Returned(cache', db', lastGet'.hash).snap[1]]_vars

\* The caller has written to a snapshot whose hash the cache holds, and the
\* cached snapshot still has no batch.
C18_Witness ==
    /\ lastGet.op = "Mutate"
    /\ held # <<>>
    /\ held[1].Val.State.CurrentBatch # Nil
    /\ CacheContains(cache, held[1].Val.Hash)
    /\ cache[CachePeek(cache, held[1].Val.Hash)].Snap.State.CurrentBatch = Nil

\* C19: every snapshot at a multiple of 1024 that was passed to
\* StoreSnapshot, and every snapshot passed to ForceStore, is in the
\* database (until DeleteSnapshot removes it): GetSnapshot for its hash
\* returns it once the cache is cleared or the entry evicted.  Nothing else
\* is in the database: a snapshot at another number that only went through
\* StoreSnapshot is not durable.
C19_DurableSnapshots ==
    /\ DOMAIN db = DOMAIN durable
    /\ \A hash \in DOMAIN durable :
        /\ Returned(<<>>, db, hash) = [err |-> "nil", snap |-> <<durable[hash]>>]
        /\ Returned(CacheRemove(cache, hash), db, hash)
               = [err |-> "nil", snap |-> <<durable[hash]>>]
    /\ \A hash \in SnapHashes \ DOMAIN durable :
        Returned(<<>>, db, hash).err = "ErrSnapshotNotFound"

\* The snapshot of block 1 went through StoreSnapshot only and lives in the
\* cache alone, while the snapshot of block 1024 has left the cache and is
\* still durable.
C19_Witness ==
    /\ CacheContains(cache, HeaderHash(1))
    /\ HeaderHash(1) \notin DOMAIN db
    /\ HeaderHash(snapshotPersistInterval) \in DOMAIN durable
    /\ ~CacheContains(cache, HeaderHash(snapshotPersistInterval))

\* The positive multiples of 1024 up to target whose block hash is known and
\* has a snapshot in the cache or the database.
Loadable(c, d, target, getHash) ==
    {m \in {k * 1024 : k \in 1..(target \div 1024)} :
        /\ m <= target
        /\ getHash[m] # ZeroHash
        /\ Returned(c, d, getHash[m]).err = "nil"}

Largest(S) == CHOOSE m \in S : \A n \in S : n <= m

\* C20: FindNearestSnapshot(target, getHash) returns, without error, the
\* snapshot stored under the hash of the largest positive multiple of 1024
\* that is at most target and loadable from cache or database, and its
\* number is that multiple; with no such multiple it returns the genesis
\* snapshot: number 0, hash getHash(0), state NewOTSState(enabled).  The
\* number returned never exceeds target.
C20_NearestSnapshot ==
    [][lastGet'.op = "FindNearestSnapshot" =>
        \E target \in {lastGet'.target} :
        \E getHash \in {BlockHashOf(lastGet'.unknown)} :
        \E found \in {Loadable(cache, db, target, getHash)} :
            /\ held'[1].Val.Number <= target
            /\ IF found = {}
               THEN held'[1].Val = [Number |-> 0, Hash |-> getHash[0],
                                    State |-> NewOTSState(enabled)]
               ELSE /\ held'[1].Val.Number = Largest(found)
                    /\ held'[1].Val
                          = Returned(cache, db, getHash[Largest(found)]).snap[1]]_vars

\* FindNearestSnapshot passed over block 2048, whose hash is unknown or has
\* no snapshot, and returned the snapshot of block 1024.
C20_Witness ==
    /\ lastGet.op = "FindNearestSnapshot"
    /\ lastGet.target > 2 * snapshotPersistInterval
    /\ held[1].Val.Number = snapshotPersistInterval

-----------------------------------------------------------------------------
(* transition.go: RebuildState; manager.go: RebuildFromChain and            *)
(* ProcessBlock over a recorded chain.  chainDb holds what the callbacks    *)
(* getHeaderByNumber, getHeader and getReceipts answer from: the number of  *)
(* the first block the database has (older headers are pruned) and, for    *)
(* every later block, its header, the parent header getHeader finds for it, *)
(* its receipts and the snapshot ProcessBlock returned for it.              *)

HeaderOf(number, time) ==
    [Number |-> number, Time |-> time, Coinbase |-> Validator(number),
     Hash |-> HeaderHash(number), ParentHash |-> HeaderHash(number - 1)]

LastBlock(ch) == ch.base + Len(ch.blocks)

\* The header time and the snapshot of the block the database starts at.
\* A database that starts late starts after a first day of blocks whose
\* batch, triggered by the block before, is anchored: block base - 1 opened
\* the second day and carried the submission, block base the confirmation
\* and the anchoring.
BaseTime(base) == IF base = 0 THEN 0 ELSE 24

BaseSnap(base) ==
    IF base = 0 THEN GetGenesisSnapshot(HeaderHash(0))
    ELSE NewSnapshot(base, HeaderHash(base),
             IF enabled THEN [NewOTSState(enabled) EXCEPT !.LastAnchoredBlock = base - 2]
             ELSE NewOTSState(enabled))

\* m.getHeaderByNumber(number): <<>> for nil; missing holds the numbers it
\* has no header for.
getHeaderByNumber(ch, missing, number) ==
    IF number \in missing \/ number < ch.base \/ number > LastBlock(ch) THEN Nil
    ELSE IF number = ch.base THEN <<HeaderOf(number, BaseTime(ch.base))>>
    ELSE <<ch.blocks[number - ch.base].Header>>

\* te.getReceipts(header.Hash(), header.Number).
getReceipts(ch, header) == ch.blocks[header.Number - ch.base].Receipts

\* te.getHeader(header.ParentHash, header.Number - 1).
getHeader(ch, header) == ch.blocks[header.Number - ch.base].ParentHeader

RECURSIVE RebuildLoop(_, _, _, _, _)
\* The loop of RebuildState from blockNum on; at is the current snapshot
\* with the manager's cache and database.
RebuildLoop(at, blockNum, targetNumber, ch, missing) ==
    IF ~(blockNum <= targetNumber)
    THEN [err |-> "nil", snap |-> <<at.snap>>, cache |-> at.cache, db |-> at.db]
    ELSE IF getHeaderByNumber(ch, missing, blockNum) = Nil
    THEN [err |-> "ErrSnapshotNotFound", snap |-> Nil, cache |-> at.cache, db |-> at.db]
    ELSE LET header == getHeaderByNumber(ch, missing, blockNum)[1]
         IN  RebuildLoop(EngineProcessBlock(header, at.snap, getHeader(ch, header),
                                            getReceipts(ch, header), at.cache, at.db),
                         blockNum + 1, targetNumber, ch, missing)

\* A rebuild that leaves out the block after the snapshot.
RebuildState_skipFirst(fromSnap, targetNumber, ch, missing, c, d) ==
    RebuildLoop([snap |-> fromSnap, cache |-> c, db |-> d],
                fromSnap.Number + 2, targetNumber, ch, missing)

RebuildState(fromSnap, targetNumber, ch, missing, c, d) ==
    RebuildLoop([snap |-> fromSnap, cache |-> c, db |-> d],
                fromSnap.Number + 1, targetNumber, ch, missing)

\* The getHash callback RebuildFromChain hands to FindNearestSnapshot, over
\* the block numbers the search asks for.
HashByNumber(ch, missing, fromBlock) ==
    [n \in {k * snapshotPersistInterval : k \in 0..(fromBlock \div snapshotPersistInterval)} |->
        IF getHeaderByNumber(ch, missing, n) = Nil THEN ZeroHash
        ELSE getHeaderByNumber(ch, missing, n)[1].Hash]

\* RebuildFromChain with the chain accessors set: the error it returns, the
\* snapshot the search gave it, the snapshot it force-stored and the
\* manager's cache and database afterwards.
ForceStoreRebuilt(from, built) ==
    IF built.err # "nil"
    THEN [err |-> built.err, from |-> from, stored |-> Nil,
          cache |-> built.cache, db |-> built.db]
    ELSE [err |-> "nil", from |-> from, stored |-> built.snap,
          cache |-> CacheAdd(built.cache, built.snap[1].Hash, built.snap[1]),
          db |-> saveToDB(built.db, built.snap[1])]

RebuildFrom(found, toBlock, ch, missing, d) ==
    ForceStoreRebuilt(found.snap[1],
                      RebuildState(found.snap[1], toBlock, ch, missing, found.cache, d))

RebuildFromChain(fromBlock, toBlock, ch, missing, c, d) ==
    RebuildFrom(FindNearestSnapshot(c, d, fromBlock, HashByNumber(ch, missing, fromBlock)),
                toBlock, ch, missing, d)

MaxChain == 2

\* The number of blocks the node processed before the recorded chain
\* starts: none, or all up to two blocks before the first persisted snapshot.
Bases == {0, snapshotPersistInterval - 2}

InitRebuild ==
    /\ enabled \in BOOLEAN
    /\ tip \in Bases
    /\ enabled \/ tip = 0
    /\ tipTime = BaseTime(tip)
    /\ cache = IF enabled /\ tip > 0
               THEN <<[Hash |-> HeaderHash(tip), Snap |-> BaseSnap(tip)]>>
               ELSE <<>>
    /\ db = <<>>
    /\ claimed = [n \in 1..MaxBlock |-> <<>>]
    /\ lastResult = Nil
    /\ lastAnchored = Nil
    /\ hadMatch = FALSE
    /\ spent = {}
    /\ st = NewOTSState(enabled)
    /\ lastCall = [op |-> "none", err |-> "nil", before |-> BatchStatusNone]
    /\ query = [op |-> "none"]
    /\ codec = [op |-> "none"]
    /\ held = <<>>
    /\ cacheRefs = <<>>
    /\ durable = <<>>
    /\ lastGet = [op |-> "none"]
    /\ chainDb = [base |-> tip, blocks |-> <<>>]
    /\ rebuilt = [op |-> "none"]
    /\ evaluated = [op |-> "none"]
    /\ mu = [writer |-> FALSE, readers |-> {}]
    /\ writer = [pc |-> "idle"]
    /\ readers = [r \in Readers |-> [pc |-> "idle", got |-> Nil, mid |-> FALSE]]
    /\ committed = {}
    /\ locks = [l \in LockNames |-> FreeLock]
    /\ calls = [t \in Threads |-> Idle]

\* A run is observed up to its first rebuild: any history of blocks and cache
\* losses, then one call of RebuildState or RebuildFromChain.
Rebuilt == rebuilt.op \in {"RebuildState", "RebuildFromChain"}

\* The receipts of a block of the recorded chain: no event or one system event.
ChainReceipts == ReceiptsOver(<<SystemLogs[2], SystemLogs[4], SystemLogs[6]>>, 1)

\* The node imports the next block and calls the manager's ProcessBlock on
\* it with the parent hash of its header.
ProcessChainBlock ==
    /\ ~Rebuilt
    /\ Len(chainDb.blocks) < MaxChain
    /\ \E in \in {h \in HeaderInputs : h.parentKnown}, receipts \in ChainReceipts :
       \E header \in {HeaderOf(tip + 1, tipTime + in.step)} :
       \E parentHeader \in {IF in.parentKnown THEN <<[Time |-> tipTime]>> ELSE Nil} :
       \E res \in {ManagerProcessBlock(header, header.ParentHash, parentHeader, receipts)} :
            /\ tip' = header.Number
            /\ tipTime' = header.Time
            /\ cache' = res.cache
            /\ db' = res.db
            /\ lastResult' = res.snap
            /\ chainDb' = [chainDb EXCEPT !.blocks =
                             Append(@, [Header |-> header, ParentHeader |-> parentHeader,
                                        Receipts |-> receipts, Snap |-> res.snap])]
            /\ rebuilt' = [op |-> "ProcessBlock", number |-> header.Number, err |-> res.err,
                           parentFound |-> GetSnapshot(cache, db, header.ParentHash).err = "nil"]
            /\ UNCHANGED <<enabled, claimed, lastAnchored, hadMatch, spent,
                           callVars, txVars, snapVars, evaluated, concVars>>

\* The snapshot ProcessBlock produced for block number when the node
\* processed it: <<>> when it produced none.
OriginalSnap(ch, number) ==
    IF number > ch.base THEN ch.blocks[number - ch.base].Snap
    ELSE <<BaseSnap(ch.base)>>

\* The header numbers getHeaderByNumber may have lost: none, or the last
\* block after the one the database starts at.
MissingHeaders == {{}} \cup {{n} : n \in {tip} \ {chainDb.base}}

\* The engine rebuilds the state of the last block from the snapshot the
\* node has of an earlier block.
CallRebuildState ==
    \E a \in chainDb.base..tip, missing \in MissingHeaders :
        /\ ~Rebuilt
        /\ OriginalSnap(chainDb, a) # Nil
        /\ \E res \in {RebuildState(OriginalSnap(chainDb, a)[1], tip, chainDb, missing,
                                    cache, db)} :
            /\ cache' = res.cache
            /\ db' = res.db
            /\ rebuilt' = [op |-> "RebuildState", from |-> a, to |-> tip,
                           missing |-> missing, err |-> res.err, snap |-> res.snap]
        /\ UNCHANGED <<enabled, tip, tipTime, claimed, lastResult, lastAnchored, hadMatch,
                       spent, callVars, txVars, snapVars, chainDb, evaluated, concVars>>

CallRebuildFromChain ==
    \E fromBlock \in chainDb.base..tip, toBlock \in {chainDb.base + 1, tip},
       missing \in MissingHeaders :
    \E res \in {RebuildFromChain(fromBlock, toBlock, chainDb, missing, cache, db)} :
        /\ ~Rebuilt
        /\ cache' = res.cache
        /\ db' = res.db
        /\ rebuilt' = [op |-> "RebuildFromChain", fromBlock |-> fromBlock,
                       toBlock |-> toBlock, missing |-> missing, err |-> res.err,
                       from |-> res.from, stored |-> res.stored]
        /\ UNCHANGED <<enabled, tip, tipTime, claimed, lastResult, lastAnchored, hadMatch,
                       spent, callVars, txVars, snapVars, chainDb, evaluated, concVars>>

\* The node loses its snapshot cache.
LoseCache ==
    /\ ~Rebuilt
    /\ cache # <<>>
    /\ cache' = <<>>
    /\ rebuilt' = [op |-> "Clear"]
    /\ UNCHANGED <<enabled, tip, tipTime, db, claimed, lastResult, lastAnchored, hadMatch,
                   spent, callVars, txVars, snapVars, chainDb, evaluated, concVars>>

NextRebuild ==
    \/ ProcessChainBlock
    \/ CallRebuildState
    \/ CallRebuildFromChain
    \/ LoseCache

SpecRebuild == InitRebuild /\ [][NextRebuild]_vars

(* state.go: OTSState.Encode and OTSState.Hash.  json.Marshal writes the    *)
(* fields in declaration order and leaves out an omitempty field that is a *)
(* zero number, an empty string or a nil pointer (never an array).          *)

OmitEmpty(key, value, empty) == IF value = empty THEN <<>> ELSE <<<<key, value>>>>

EncodeBatchState(b) ==
    <<<<"startBlock", b.StartBlock>>, <<"endBlock", b.EndBlock>>,
      <<"rootHash", b.RootHash>>, <<"status", b.Status>>,
      <<"triggerBlock", b.TriggerBlock>>, <<"triggerNode", b.TriggerNode>>,
      <<"otsDigest", b.OTSDigest>>>>
    \o OmitEmpty("submittedAt", b.SubmittedAt, 0)
    \o <<<<"submittedBy", b.SubmittedBy>>>>
    \o OmitEmpty("btcBlockHeight", b.BTCBlockHeight, 0)
    \o OmitEmpty("btcTxId", b.BTCTxID, <<>>)
    \o OmitEmpty("btcTimestamp", b.BTCTimestamp, 0)
    \o OmitEmpty("confirmedAt", b.ConfirmedAt, 0)
    \o <<<<"confirmedBy", b.ConfirmedBy>>>>
    \o OmitEmpty("anchoredAt", b.AnchoredAt, 0)
    \o <<<<"anchoredBy", b.AnchoredBy>>>>

Encode(state) ==
    <<<<"enabled", state.Enabled>>, <<"lastAnchoredBlock", state.LastAnchoredBlock>>>>
    \o (IF state.CurrentBatch = Nil THEN <<>>
        ELSE <<<<"currentBatch", EncodeBatchState(state.CurrentBatch[1])>>>>)

\* Keccak256 of a byte string: the hash stands for the bytes it was made of.
Keccak256(data) == <<"keccak256", data>>

OTSStateHash(state) == Keccak256(Encode(state))

\* C21: RebuildState from the snapshot the node has of block a up to the
\* last block returns, when no header of the range is missing, a snapshot
\* whose state hash is the hash of the state ProcessBlock produced for that
\* block when the blocks were processed one by one; when a header of the
\* range is missing it returns ErrSnapshotNotFound and no snapshot.
C21_RebuildEqualsOriginal ==
    rebuilt.op = "RebuildState" =>
        IF rebuilt.missing \cap (rebuilt.from + 1)..rebuilt.to # {}
        THEN rebuilt.err = "ErrSnapshotNotFound" /\ rebuilt.snap = Nil
        ELSE /\ rebuilt.err = "nil"
             /\ rebuilt.snap[1].Number = rebuilt.to
             /\ rebuilt.snap[1].Hash = HeaderHash(rebuilt.to)
             /\ OriginalSnap(chainDb, rebuilt.to) # Nil =>
                    OTSStateHash(rebuilt.snap[1].State)
                        = OTSStateHash(OriginalSnap(chainDb, rebuilt.to)[1].State)

\* The state of the last block was rebuilt over two blocks, the first of
\* which triggered a batch that the second moved on, and across the
\* persistence boundary.
C21_Witness ==
    /\ rebuilt.op = "RebuildState"
    /\ rebuilt.err = "nil"
    /\ rebuilt.to = rebuilt.from + 2
    /\ rebuilt.to % snapshotPersistInterval = 0
    /\ OriginalSnap(chainDb, rebuilt.to) # Nil
    /\ rebuilt.snap[1].State.CurrentBatch # Nil
    /\ rebuilt.snap[1].State.CurrentBatch[1].Status = BatchStatusSubmitted

\* C22: when RebuildFromChain(fromBlock, toBlock) returns nil, it started
\* from the nearest durable snapshot at or below fromBlock (the snapshot of
\* the largest loadable multiple of 1024, else genesis), the snapshot it
\* force-stored has the number toBlock and the hash of header toBlock, and
\* GetSnapshot loads that snapshot from the database afterwards.
C22_RebuildFromChain ==
    [][(rebuilt'.op = "RebuildFromChain" /\ rebuilt'.err = "nil") =>
        \E getHash \in {HashByNumber(chainDb, rebuilt'.missing, rebuilt'.fromBlock)} :
        \E found \in {Loadable(cache, db, rebuilt'.fromBlock, getHash)} :
            /\ rebuilt'.from.Number <= rebuilt'.fromBlock
            /\ IF found = {}
               THEN rebuilt'.from = GetGenesisSnapshot(getHash[0])
               ELSE rebuilt'.from = Returned(cache, db, getHash[Largest(found)]).snap[1]
            /\ rebuilt'.stored # Nil
            /\ rebuilt'.stored[1].Number = rebuilt'.toBlock
            /\ rebuilt'.stored[1].Hash = HeaderHash(rebuilt'.toBlock)
            /\ Returned(<<>>, db', HeaderHash(rebuilt'.toBlock))
                   = [err |-> "nil", snap |-> rebuilt'.stored]]_vars

\* The block ProcessChainBlock has just appended to the chain database.
LastProcessed(ch) == ch.blocks[Len(ch.blocks)]

\* C23: when an enabled manager's ProcessBlock finds no snapshot for the
\* parent hash, it processes the block on the genesis snapshot exactly when
\* the block number is 1; for any other number it returns the lookup error
\* ErrSnapshotNotFound and no snapshot, and cache and database stay as they
\* were.
C23_MissingParent ==
    [][(rebuilt'.op = "ProcessBlock" /\ enabled /\ ~rebuilt'.parentFound) =>
        \E block \in {LastProcessed(chainDb')} :
            IF rebuilt'.number = 1
            THEN /\ rebuilt'.err = "nil"
                 /\ lastResult' = <<EngineProcessBlock(block.Header,
                                        GetGenesisSnapshot(block.Header.ParentHash),
                                        block.ParentHeader, block.Receipts, cache, db).snap>>
            ELSE /\ rebuilt'.err = "ErrSnapshotNotFound"
                 /\ lastResult' = Nil
                 /\ cache' = cache
                 /\ db' = db
                 /\ Returned(cache', db', block.Header.Hash).err = "ErrSnapshotNotFound"]_vars

\* ProcessBlock was called for a block other than block 1 whose parent
\* snapshot the cache had lost, and failed.
C23_Witness ==
    /\ rebuilt.op = "ProcessBlock"
    /\ enabled
    /\ ~rebuilt.parentFound
    /\ rebuilt.number > 1
    /\ rebuilt.err # "nil"
    /\ lastResult = Nil

-----------------------------------------------------------------------------
(* Functions without state, called directly: the trigger predicate and the *)
(* Merkle tree.                                                             *)

stateVars == <<chainVars, callVars, txVars, snapVars, rebuildVars, concVars>>

\* Header times in hours: around the first midnight, the second midnight
\* and the first year boundary.  Block times never decrease along a chain.
TriggerTimes == {0, 1, 23, 24, 25, 47, 48, 365 * 24 - 1, 365 * 24, 365 * 24 + 1}

CallIsTriggerBlock ==
    evaluated.op = "none" /\
    \E parentTime \in TriggerTimes, time \in TriggerTimes :
        /\ parentTime <= time
        /\ evaluated' = [op |-> "isTriggerBlock", time |-> time, parentTime |-> parentTime,
                         result |-> isTriggerBlock([Time |-> time], <<[Time |-> parentTime]>>)]
        /\ UNCHANGED stateVars

\* (year, day) of a is lexicographically greater than (year, day) of b.
LaterDay(a, b) ==
    \/ Year(a) > Year(b)
    \/ Year(a) = Year(b) /\ YearDay(a) > YearDay(b)

\* C24: with TriggerHourUTC = 0, isTriggerBlock is true exactly when the
\* (year, day of year) of the header is lexicographically greater than that
\* of its parent, that is, when the header is on a later UTC day: false for
\* two blocks of one day, equal timestamps included, true for the first
\* block after midnight and across the year boundary.
C24_TriggerPredicate ==
    evaluated.op = "isTriggerBlock" =>
        /\ evaluated.result <=> LaterDay(evaluated.time, evaluated.parentTime)
        /\ evaluated.result <=> (evaluated.time \div 24 > evaluated.parentTime \div 24)
        /\ evaluated.time = evaluated.parentTime => ~evaluated.result

\* The predicate was true for a block on 1 January whose parent is of 31
\* December.
C24_Witness ==
    /\ evaluated.op = "isTriggerBlock"
    /\ evaluated.result
    /\ Year(evaluated.time) > Year(evaluated.parentTime)
    /\ YearDay(evaluated.time) = 1
    /\ YearDay(evaluated.parentTime) = 365

\* RUID lists given to the root computation: every list of at most
\* MaxRUIDs of the RUIDs 1..MaxRUIDs, repetitions included.
MaxRUIDs == 3

RUIDLists == UNION {[1..n -> 1..MaxRUIDs] : n \in 0..MaxRUIDs}

CallCalculateRootHash ==
    evaluated.op = "none" /\
    \E ruids \in RUIDLists :
        /\ evaluated' = [op |-> "calculateRootHash", ruids |-> ruids,
                         root |-> calculateRootHashOf(ruids),
                         unsorted |-> buildMerkleRoot(ruids)]
        /\ UNCHANGED stateVars

\* C25: the Merkle root of a batch of exactly one RUID is the leaf
\* keccak256(ruid) combined with itself, keccak256(leaf || leaf), and not
\* the bare leaf.
C25_SingleRUIDRoot ==
    (evaluated.op = "calculateRootHash" /\ Len(evaluated.ruids) = 1) =>
        /\ evaluated.root = Keccak256Pair(Keccak256Leaf(evaluated.ruids[1]),
                                          Keccak256Leaf(evaluated.ruids[1]))
        /\ evaluated.root # Keccak256Leaf(evaluated.ruids[1])

\* The reference construction: the leaves keccak256(ruid) of the RUIDs in
\* ascending order; a layer of one node is the root; a layer of an odd
\* count above one gets its last node once more; each pair is hashed as
\* keccak256(min || max).
ReferenceLeaves(ruids) ==
    LET sorted == SortSeq(ruids, LAMBDA a, b : a < b)
    IN  [i \in 1..Len(ruids) |-> Keccak256Leaf(sorted[i])]

RECURSIVE ReferenceReduce(_)
ReferenceReduce(layer) ==
    IF Len(layer) = 1 THEN layer[1]
    ELSE LET full == IF Len(layer) % 2 = 1 THEN layer \o <<layer[Len(layer)]>> ELSE layer
             Min(a, b) == IF a <= b THEN a ELSE b
             Max(a, b) == IF a <= b THEN b ELSE a
         IN  ReferenceReduce([i \in 1..(Len(full) \div 2) |->
                 Keccak256Pair(Min(full[2 * i - 1], full[2 * i]),
                               Max(full[2 * i - 1], full[2 * i]))])

ReferenceRoot(ruids) ==
    IF ruids = <<>> THEN ZeroHash ELSE ReferenceReduce(ReferenceLeaves(ruids))

\* C26: for every RUID list, the root of calculateRootHash (sort by raw
\* bytes, then buildMerkleRoot) is the root of the reference construction,
\* the zero hash for the empty list, and every permutation of the list
\* gives the same root.
C26_RootIsReference ==
    evaluated.op = "calculateRootHash" =>
        /\ evaluated.root = ReferenceRoot(evaluated.ruids)
        /\ evaluated.ruids = <<>> => evaluated.root = ZeroHash
        /\ \A p \in Permutations(DOMAIN evaluated.ruids) :
               calculateRootHashOf([i \in DOMAIN evaluated.ruids |-> evaluated.ruids[p[i]]])
                   = evaluated.root

\* The root of three distinct RUIDs given out of order: the second layer
\* had its last node duplicated, and the order of the list mattered to
\* buildMerkleRoot alone.
C26_Witness ==
    /\ evaluated.op = "calculateRootHash"
    /\ Len(evaluated.ruids) = 3
    /\ Cardinality({evaluated.ruids[i] : i \in 1..3}) = 3
    /\ evaluated.ruids[1] > evaluated.ruids[3]
    /\ evaluated.unsorted # evaluated.root
    /\ evaluated.root # ZeroHash

(* The merkle package (tree, proof, serialization), after section 4.2 of   *)
(* the specification: its source is not among the files of the module.     *)

\* Layer combine of a pair: keccak256(min || max).
HashPair(a, b) == IF a <= b THEN Keccak256Pair(a, b) ELSE Keccak256Pair(b, a)

\* The layer above: the last node of a layer of odd count is duplicated.
LayerAbove(layer) ==
    LET full == IF Len(layer) % 2 = 1 THEN Append(layer, layer[Len(layer)]) ELSE layer
    IN  [i \in 1..(Len(full) \div 2) |-> HashPair(full[2 * i - 1], full[2 * i])]

\* The layers from the leaves to the root.  A tree of one leaf has the
\* leaf combined with itself as its root.
RECURSIVE LayersFrom(_)
LayersFrom(layer) ==
    IF Len(layer) = 1 THEN <<layer>>
    ELSE <<layer>> \o LayersFrom(LayerAbove(layer))

\* merkle.BuildFromRUIDs: the RUIDs sorted by raw bytes, leaf[i] =
\* keccak256(ruid[i]); no tree of no RUID.
BuildFromRUIDs(ruids) ==
    IF ruids = <<>> THEN [err |-> "ErrEmptyTree", layers |-> <<>>]
    ELSE LET sorted == SortRUIDs(ruids)
             leaves == [i \in 1..Len(sorted) |-> Keccak256Leaf(sorted[i])]
         IN  [err |-> "nil",
              layers |-> IF Len(leaves) = 1
                         THEN <<leaves, LayerAbove(leaves)>>
                         ELSE LayersFrom(leaves)]

\* Tree.Root
Root(tree) == tree.layers[Len(tree.layers)][1]

\* The sibling of node i of a layer, and whether node i is the left input:
\* the last node of a layer of odd count is its own sibling.
Sibling(layer, i) ==
    LET j == IF i % 2 = 1 THEN i + 1 ELSE i - 1
    IN  [Hash |-> IF j > Len(layer) THEN layer[i] ELSE layer[j], IsLeft |-> i % 2 = 1]

\* A path that leaves out the step of a node that is its own sibling.
RECURSIVE PathFrom_noDuplicate(_, _, _)
PathFrom_noDuplicate(layers, level, i) ==
    IF level >= Len(layers) THEN <<>>
    ELSE (IF i % 2 = 1 /\ i + 1 > Len(layers[level]) THEN <<>>
          ELSE <<Sibling(layers[level], i)>>)
         \o PathFrom_noDuplicate(layers, level + 1, (i + 1) \div 2)

RECURSIVE PathFrom(_, _, _)
PathFrom(layers, level, i) ==
    IF level >= Len(layers) THEN <<>>
    ELSE <<Sibling(layers[level], i)>> \o PathFrom(layers, level + 1, (i + 1) \div 2)

\* Tree.GetProof: the path of the first leaf that is keccak256(ruid).
GetProof(tree, ruid) ==
    LET leaf == Keccak256Leaf(ruid)
        at == IF tree.err = "nil"
              THEN {i \in DOMAIN tree.layers[1] : tree.layers[1][i] = leaf} ELSE {}
    IN  IF at = {} THEN [err |-> "ErrLeafNotFound", proof |-> Nil]
        ELSE [err |-> "nil",
              proof |-> <<[Leaf |-> leaf, Root |-> Root(tree),
                           Path |-> PathFrom(tree.layers, 1,
                                             CHOOSE i \in at : \A k \in at : i <= k)]>>]

\* Proof.VerifyRUID: the leaf is recomputed from the RUID and combined with
\* each sibling in turn; the flags are not read.
RECURSIVE ClimbPath(_, _)
ClimbPath(node, path) ==
    IF path = <<>> THEN node
    ELSE ClimbPath(HashPair(node, Head(path).Hash), Tail(path))

VerifyRUID(proof, ruid) == ClimbPath(Keccak256Leaf(ruid), proof.Path) = proof.Root

\* Proof.Serialize: leaf, root, the number of steps, then a sibling and a
\* flag byte for each step.
RECURSIVE SerializePath(_)
SerializePath(path) ==
    IF path = <<>> THEN <<>>
    ELSE <<Head(path).Hash, IF Head(path).IsLeft THEN 1 ELSE 0>> \o SerializePath(Tail(path))

Serialize(proof) == <<proof.Leaf, proof.Root, Len(proof.Path)>> \o SerializePath(proof.Path)

\* merkle.DeserializeProof: fails on data of another length than the one
\* its prefix announces.
DeserializeProof(data) ==
    IF Len(data) < 3 \/ Len(data) # 3 + 2 * data[3]
    THEN [err |-> "ErrInvalidProof", proof |-> Nil]
    ELSE [err |-> "nil",
          proof |-> <<[Leaf |-> data[1], Root |-> data[2],
                       Path |-> [k \in 1..data[3] |->
                                    [Hash |-> data[2 + 2 * k], IsLeft |-> data[3 + 2 * k] = 1]]]>>]

\* A RUID beyond those of the lists: in no tree.
ProofRUIDs == 1..(MaxRUIDs + 1)

CallGetProof ==
    evaluated.op = "none" /\
    \E ruids \in RUIDLists, ruid \in ProofRUIDs :
        \E tree \in {BuildFromRUIDs(ruids)} :
        \E got \in {GetProof(tree, ruid)} :
            /\ evaluated' = [op |-> "GetProof", ruids |-> ruids, ruid |-> ruid,
                             built |-> tree.err,
                             root |-> IF tree.err = "nil" THEN Root(tree) ELSE ZeroHash,
                             err |-> got.err, proof |-> got.proof,
                             restored |-> IF got.err = "nil"
                                          THEN DeserializeProof(Serialize(got.proof[1]))
                                          ELSE [err |-> got.err, proof |-> Nil]]
            /\ UNCHANGED stateVars

Members(ruids) == {ruids[i] : i \in DOMAIN ruids}

\* C27: for a tree over the RUIDs R and r in R, GetProof(r) gives a proof
\* that verifies r and carries the root of the tree, and so does the proof
\* after Serialize and DeserializeProof; for r not in R, GetProof fails or
\* the proof does not verify r, and no proof of the tree verifies r.
C27_ProofSoundness ==
    (evaluated.op = "GetProof" /\ evaluated.built = "nil") =>
        IF evaluated.ruid \in Members(evaluated.ruids)
        THEN /\ evaluated.err = "nil"
             /\ VerifyRUID(evaluated.proof[1], evaluated.ruid)
             /\ evaluated.proof[1].Root = evaluated.root
             /\ evaluated.restored.err = "nil"
             /\ VerifyRUID(evaluated.restored.proof[1], evaluated.ruid)
             /\ evaluated.restored.proof[1].Root = evaluated.root
        ELSE /\ evaluated.err = "nil" => ~VerifyRUID(evaluated.proof[1], evaluated.ruid)
             /\ \A q \in Members(evaluated.ruids) :
                    ~VerifyRUID(GetProof(BuildFromRUIDs(evaluated.ruids), q).proof[1],
                                evaluated.ruid)

\* A proof of the last of three RUIDs, a leaf that is its own sibling, was
\* extracted, restored from its serialization, and verified.
C27_Witness ==
    /\ evaluated.op = "GetProof"
    /\ Cardinality(Members(evaluated.ruids)) = 3
    /\ evaluated.ruid = SortRUIDs(evaluated.ruids)[3]
    /\ evaluated.err = "nil"
    /\ Len(evaluated.proof[1].Path) = 2
    /\ evaluated.proof[1].Path[1].Hash = evaluated.proof[1].Leaf
    /\ evaluated.restored.err = "nil"
    /\ VerifyRUID(evaluated.restored.proof[1], evaluated.ruid)

(* The engine called directly on a parent snapshot.  Each behaviour makes   *)
(* one call and keeps its result.                                           *)

\* Parent states of every status for a block, built by the state
\* operations: the first batch [1, number - 3] anchored, and the batch
\* [number - 2, number - 2] triggered by the parent block on top of it.
AnchoredState(endBlock) ==
    MarkAnchored(
        MarkConfirmed(
            MarkSubmitted(
                Trigger(NewOTSState(TRUE), 1, endBlock, endBlock + 1,
                        Validator(endBlock + 1), ZeroHash).state,
                1, endBlock + 1, Validator(endBlock + 1)).state,
            7, Bytes2Hex(8), 9, endBlock + 1, Validator(endBlock + 1)).state,
        endBlock + 2, Validator(endBlock)).state

TriggeredState(number) ==
    Trigger(AnchoredState(number - 3), number - 2, number - 2, number - 1,
            Validator(number - 1), ZeroHash).state

SubmittedState(number) ==
    MarkSubmitted(TriggeredState(number), 1, number - 1, Validator(number - 1)).state

ConfirmedState(number) ==
    MarkConfirmed(SubmittedState(number), 7, Bytes2Hex(8), 9, number - 1,
                  Validator(number - 1)).state

\* A chain that never had a batch is a short one.
ParentStates(number) ==
    {NewOTSState(FALSE), AnchoredState(number - 3), TriggeredState(number),
     SubmittedState(number), ConfirmedState(number)}
    \cup (IF number < snapshotPersistInterval THEN {NewOTSState(TRUE)} ELSE {})

\* Blocks whose snapshot is cached only, and blocks whose snapshot is also
\* written to the database.
EngineBlocks == {4, snapshotPersistInterval}

\* Up to two system events in a block.
EngineReceipts == ReceiptsOver(SystemLogs, 2)

CallEngineProcessBlock ==
    evaluated.op = "none" /\
    \E number \in EngineBlocks, in \in HeaderInputs,
       receipts \in EngineReceipts, putFails \in BOOLEAN :
    \E state \in ParentStates(number) :
    \E header \in {HeaderOf(number, 24 + in.step)} :
    \E parentSnap \in {NewSnapshot(number - 1, header.ParentHash, state)} :
    \E res \in {EngineProcessBlockOn(header, parentSnap,
                     IF in.parentKnown THEN <<[Time |-> 24]>> ELSE Nil,
                     receipts, <<>>, <<>>, putFails)} :
        /\ evaluated' = [op |-> "ProcessBlock", header |-> header, parent |-> state,
                         putFails |-> putFails, err |-> res.err, snap |-> res.snap,
                         cache |-> res.cache, db |-> res.db, stored |-> res.stored]
        /\ UNCHANGED stateVars

\* C31: the engine's ProcessBlock returns, for every header and parent
\* snapshot, a nil error and a snapshot with the number and hash of the
\* header; a rule changes the status by one step or not at all; when
\* StoreSnapshot fails the snapshot is returned all the same and is in the
\* cache.
C31_NeverRejects ==
    evaluated.op = "ProcessBlock" =>
        /\ evaluated.err = "nil"
        /\ evaluated.snap # Nil
        /\ evaluated.snap[1].Number = evaluated.header.Number
        /\ evaluated.snap[1].Hash = evaluated.header.Hash
        /\ evaluated.snap[1].State.Enabled = evaluated.parent.Enabled
        /\ evaluated.parent.Enabled
              => /\ CacheContains(evaluated.cache, evaluated.header.Hash)
                 /\ evaluated.cache[CachePeek(evaluated.cache, evaluated.header.Hash)].Snap
                       = evaluated.snap[1]
        /\ evaluated.stored = "nil" /\ evaluated.header.Number % snapshotPersistInterval = 0
              => evaluated.db[evaluated.header.Hash] = evaluated.snap[1]

\* StoreSnapshot failed on a block that advanced the batch: the snapshot
\* was returned and is in the cache, not in the database.
C31_Witness ==
    /\ evaluated.op = "ProcessBlock"
    /\ evaluated.stored = "ErrPut"
    /\ evaluated.err = "nil"
    /\ StatusOf(evaluated.snap[1].State) # StatusOf(evaluated.parent)
    /\ CacheContains(evaluated.cache, evaluated.header.Hash)
    /\ evaluated.header.Hash \notin DOMAIN evaluated.db

(* applyTransitions on receipts of either status with logs of two addresses *)

\* A contract that is not the registry.
ForeignAddr == copyrightRegistryAddr + 1

ReceiptStatusFailed == 0

\* A system event as a block carries it: from the registry or from another
\* contract, in a receipt that succeeded or failed.
PlacedEvents ==
    {[log |-> [SystemLogs[i] EXCEPT !.Address = a], status |-> status] :
        i \in 1..Len(SystemLogs), a \in {copyrightRegistryAddr, ForeignAddr},
        status \in {ReceiptStatusSuccessful, ReceiptStatusFailed}}

\* One event, two events in one receipt, or two events in two receipts.
EventReceipts ==
    {<<[Status |-> e.status, Logs |-> <<e.log>>]>> : e \in PlacedEvents}
    \cup {<<[Status |-> ef[1].status, Logs |-> <<ef[1].log, ef[2].log>>]>> :
             ef \in {p \in PlacedEvents \X PlacedEvents : p[1].status = p[2].status}}
    \cup {<<[Status |-> e.status, Logs |-> <<e.log>>], [Status |-> f.status, Logs |-> <<f.log>>]>> :
             e \in PlacedEvents, f \in PlacedEvents}

CallApplyTransitions ==
    evaluated.op = "none" /\
    \E number \in {1, 4}, step \in {0, 24}, parentKnown \in BOOLEAN,
       receipts \in EventReceipts :
    \E state \in (IF number = 1 THEN {NewOTSState(TRUE)}
                   ELSE ParentStates(number) \ {NewOTSState(FALSE)}) :
    \E header \in {HeaderOf(number, 24 + step)} :
    \E parentHeader \in {IF parentKnown THEN <<[Time |-> 24]>> ELSE Nil} :
    \E child \in {applyTransitions(state, header, parentHeader, receipts)} :
        /\ evaluated' = [op |-> "applyTransitions", parent |-> state, header |-> header,
                         parentKnown |-> parentKnown, receipts |-> receipts,
                         child |-> child,
                         bare |-> applyTransitions(state, header, parentHeader, <<>>),
                         next |-> applyTransitions(child,
                                     HeaderOf(number + 1, header.Time + 1),
                                     <<[Time |-> header.Time]>>, <<>>)]
        /\ UNCHANGED stateVars

\* The places <<receipt, log>> of the events of a signature that the
\* registry emitted in a successful receipt.
Qualifying(receipts, sig) ==
    {p \in (1..Len(receipts)) \X (1..2) :
        /\ p[2] <= Len(receipts[p[1]].Logs)
        /\ receipts[p[1]].Status = ReceiptStatusSuccessful
        /\ receipts[p[1]].Logs[p[2]].Address = copyrightRegistryAddr
        /\ receipts[p[1]].Logs[p[2]].Topics[1] = sig}

\* The first of them in receipt and log order.
FirstQualifying(receipts, sig) ==
    LET first == CHOOSE p \in Qualifying(receipts, sig) :
                    \A q \in Qualifying(receipts, sig) :
                        p[1] < q[1] \/ (p[1] = q[1] /\ p[2] <= q[2])
    IN  receipts[first[1]].Logs[first[2]]

\* C32: a block none of whose system events is a registry log in a
\* successful receipt leaves the state as the same block without receipts
\* leaves it, which is the parent's state unless the block triggers; a
\* digest recorded by the block is the digest of the first qualifying
\* OTSSubmitted event, and the BTC height, txid and timestamp recorded by
\* the block are those of the first qualifying OTSConfirmed event.
C32_OnlyRegistryEvents ==
    evaluated.op = "applyTransitions" =>
        LET receipts == evaluated.receipts
            child == evaluated.child
            number == evaluated.header.Number
        IN  /\ (\A sig \in {otsSubmittedSig, otsConfirmedSig, anchoredSig} :
                    Qualifying(receipts, sig) = {})
                  => /\ child = evaluated.bare
                     /\ (evaluated.header.Time = 24 \/ evaluated.parent.CurrentBatch # Nil)
                           => child = evaluated.parent
            /\ child.CurrentBatch # Nil /\ child.CurrentBatch[1].SubmittedAt = number
                  => /\ Qualifying(receipts, otsSubmittedSig) # {}
                     /\ child.CurrentBatch[1].OTSDigest
                           = FirstQualifying(receipts, otsSubmittedSig).Data[1]
            /\ child.CurrentBatch # Nil /\ child.CurrentBatch[1].ConfirmedAt = number
                  => /\ Qualifying(receipts, otsConfirmedSig) # {}
                     /\ child.CurrentBatch[1].BTCBlockHeight
                           = Uint64(FirstQualifying(receipts, otsConfirmedSig).Data[1])
                     /\ child.CurrentBatch[1].BTCTxID
                           = Bytes2Hex(FirstQualifying(receipts, otsConfirmedSig).Data[2])
                     /\ child.CurrentBatch[1].BTCTimestamp
                           = Uint64(FirstQualifying(receipts, otsConfirmedSig).Data[3])
            /\ StatusOf(child) # StatusOf(evaluated.bare)
                  => \E sig \in {otsSubmittedSig, otsConfirmedSig, anchoredSig} :
                        Qualifying(receipts, sig) # {}

\* A failed receipt and a foreign log come before two qualifying
\* submissions: the digest of the first of the two is recorded.
C32_Witness ==
    /\ evaluated.op = "applyTransitions"
    /\ Len(evaluated.receipts) = 2
    /\ evaluated.receipts[1].Status = ReceiptStatusSuccessful
    /\ Cardinality(Qualifying(evaluated.receipts, otsSubmittedSig)) = 2
    /\ evaluated.receipts[1].Logs[1].Data # evaluated.receipts[2].Logs[1].Data
    /\ StatusOf(evaluated.parent) = BatchStatusTriggered
    /\ StatusOf(evaluated.child) = BatchStatusSubmitted
    /\ evaluated.child.CurrentBatch[1].OTSDigest = evaluated.receipts[1].Logs[1].Data[1]

\* Events in a failed receipt and from another contract changed nothing.
C32_WitnessIgnored ==
    /\ evaluated.op = "applyTransitions"
    /\ Len(evaluated.receipts) = 2
    /\ evaluated.receipts[1].Status = ReceiptStatusFailed
    /\ evaluated.receipts[1].Logs[1].Topics[1] = otsSubmittedSig
    /\ evaluated.receipts[2].Logs[1].Address = ForeignAddr
    /\ evaluated.receipts[2].Status = ReceiptStatusSuccessful
    /\ evaluated.receipts[2].Logs[1].Topics[1] = otsSubmittedSig
    /\ StatusOf(evaluated.parent) = BatchStatusTriggered
    /\ evaluated.child = evaluated.parent

NextPure ==
    \/ CallIsTriggerBlock
    \/ CallCalculateRootHash
    \/ CallGetProof
    \/ CallEngineProcessBlock
    \/ CallApplyTransitions

SpecPure == Init /\ [][NextPure]_vars

-----------------------------------------------------------------------------
(* Concurrency.  The chain thread runs ProcessBlock and RebuildFromChain    *)
(* under the write side of the manager's mutex, step by step; reader        *)
(* threads call the manager in between.  Every call of the snapshot         *)
(* manager runs under that manager's own mutex and is one step.  An object  *)
(* is a reference with a value: a write to an object is seen through every  *)
(* reference to it, and the object the cache holds for a hash has that hash *)
(* as its reference.                                                        *)

\* The writer leaves the manager: the deferred m.mu.Unlock.
WriterReturns ==
    /\ mu' = [mu EXCEPT !.writer = FALSE]
    /\ writer' = [pc |-> "idle"]

\* The engine starts on a block: newState := parentSnap.State.Copy().  A
\* disabled state is returned as a snapshot that is not stored.
EngineStarts(op, to, header, parentHeader, receipts, current) ==
    \E work \in {Copy(Object(current.Ref, current.Val.State), NewRef)} :
        writer' = [pc |-> IF work.Val.Enabled THEN "rule" ELSE "stored", rule |-> 1,
                   op |-> op, to |-> to, header |-> header, parentHeader |-> parentHeader,
                   receipts |-> receipts, current |-> current, work |-> work]

\* The receipts of a block: none, or the submission, the confirmation and
\* the anchoring of the batch in one block.
ConcReceipts == {<<>>, Picked(SystemLogs, {2, 4, 6}, 1)}

\* ProcessBlock: m.mu.Lock() on the next block of the chain.
WriterProcessBlock ==
    /\ writer.pc = "idle"
    /\ ~mu.writer /\ mu.readers = {}
    /\ Len(chainDb.blocks) < MaxChain
    /\ \E in \in {h \in HeaderInputs : h.parentKnown}, receipts \in ConcReceipts :
       \E header \in {HeaderOf(tip + 1, tipTime + in.step)} :
            /\ mu' = [mu EXCEPT !.writer = TRUE]
            /\ tip' = header.Number
            /\ tipTime' = header.Time
            /\ chainDb' = [chainDb EXCEPT !.blocks =
                             Append(@, [Header |-> header, ParentHeader |-> <<[Time |-> tipTime]>>,
                                        Receipts |-> receipts, Snap |-> Nil])]
            /\ writer' = [pc |-> "getParent", op |-> "ProcessBlock", header |-> header]
    /\ UNCHANGED <<enabled, cache, db, claimed, lastResult, lastAnchored, hadMatch, spent,
                   callVars, txVars, snapVars, rebuilt, evaluated, readers, committed, lockVars>>

\* ProcessBlock: the enabled check, the parent snapshot or genesis for block
\* 1, and the start of the engine.
WriterGetParent ==
    /\ writer.pc = "getParent"
    /\ \E header \in {writer.header} :
       \E got \in {GetSnapshot(cache, db, header.ParentHash)} :
          IF ~enabled
          THEN WriterReturns /\ UNCHANGED cache
          ELSE /\ cache' = got.cache
               /\ IF got.err # "nil" /\ header.Number # 1
                  THEN WriterReturns
                  ELSE /\ EngineStarts("ProcessBlock", header.Number, header,
                              getHeader(chainDb, header), getReceipts(chainDb, header),
                              IF got.err # "nil"
                              THEN Object(CallerRef, GetGenesisSnapshot(header.ParentHash))
                              ELSE Copy(Object(header.ParentHash, got.snap[1]), CallerRef))
                       /\ UNCHANGED mu
    /\ UNCHANGED <<enabled, tip, tipTime, db, claimed, lastResult, lastAnchored, hadMatch,
                   spent, callVars, txVars, snapVars, rebuildVars, evaluated, readers,
                   committed, lockVars>>

\* RebuildFromChain up to the last block: m.mu.Lock(), FindNearestSnapshot,
\* and the start of the engine on the first block of RebuildState.
WriterRebuildFromChain ==
    /\ writer.pc = "idle"
    /\ ~mu.writer /\ mu.readers = {}
    /\ LastBlock(chainDb) > chainDb.base
    /\ \E toBlock \in {LastBlock(chainDb)} :
       \E found \in {FindNearestSnapshot(cache, db, toBlock,
                                         HashByNumber(chainDb, {}, toBlock))} :
       \E header \in {getHeaderByNumber(chainDb, {}, found.snap[1].Number + 1)[1]} :
            /\ found.snap[1].Number < toBlock
            /\ mu' = [mu EXCEPT !.writer = TRUE]
            /\ cache' = found.cache
            /\ EngineStarts("RebuildFromChain", toBlock, header,
                   getHeader(chainDb, header), getReceipts(chainDb, header),
                   IF found.from = "genesis" THEN Object(CallerRef, found.snap[1])
                   ELSE Copy(Object(found.snap[1].Hash, found.snap[1]), CallerRef))
    /\ UNCHANGED <<enabled, tip, tipTime, db, claimed, lastResult, lastAnchored, hadMatch,
                   spent, callVars, txVars, snapVars, rebuildVars, evaluated, readers,
                   committed, lockVars>>

\* MarkAnchored up to its last statement: the batch is still there.
AnchoredNotCleared(s, header) ==
    [s EXCEPT !.LastAnchoredBlock = s.CurrentBatch[1].EndBlock,
              !.CurrentBatch = <<[s.CurrentBatch[1] EXCEPT !.AnchoredAt = header.Number,
                                                           !.AnchoredBy = header.Coinbase,
                                                           !.Status = BatchStatusAnchored]>>]

\* The state after the next writes of applyTransitions: rules 1 to 3, rule
\* 4 up to the last statement of MarkAnchored, that last statement.
AfterRule(rule, s, header, parentHeader, receipts) ==
    CASE rule = 1 -> afterTrigger(s, header, parentHeader)
      [] rule = 2 -> afterSubmit(s, header, receipts)
      [] rule = 3 -> afterConfirm(s, header, receipts)
      [] rule = 4 -> IF afterAnchor(s, header, receipts) # s
                     THEN AnchoredNotCleared(s, header) ELSE s
      [] OTHER    -> IF s.CurrentBatch # Nil /\ s.CurrentBatch[1].Status = BatchStatusAnchored
                     THEN [s EXCEPT !.CurrentBatch = Nil] ELSE s

LastRule == 5

\* applyTransitions writes to newState; a cache entry that is the same
\* object shows the write.
WriterApplyRule ==
    /\ writer.pc = "rule"
    /\ \E val \in {AfterRule(writer.rule, writer.work.Val, writer.header,
                             writer.parentHeader, writer.receipts)} :
            /\ writer' = [writer EXCEPT !.work = Object(writer.work.Ref, val),
                                        !.rule = IF @ = LastRule THEN @ ELSE @ + 1,
                                        !.pc = IF writer.rule = LastRule THEN "store" ELSE "rule"]
            /\ cache' = [i \in DOMAIN cache |->
                            IF cache[i].Hash = writer.work.Ref
                            THEN [cache[i] EXCEPT !.Snap.State = val]
                            ELSE cache[i]]
    /\ UNCHANGED <<enabled, tip, tipTime, db, claimed, lastResult, lastAnchored, hadMatch,
                   spent, callVars, txVars, snapVars, rebuildVars, evaluated, mu, readers,
                   committed, lockVars>>

\* The engine's NewSnapshot and StoreSnapshot.
WriterStore ==
    /\ writer.pc = "store"
    /\ \E newSnap \in {NewSnapshot(writer.header.Number, writer.header.Hash, writer.work.Val)} :
       \E stored \in {StoreSnapshot(cache, db, newSnap)} :
            /\ cache' = stored.cache
            /\ db' = stored.db
            /\ committed' = committed \cup {newSnap}
            /\ writer' = [writer EXCEPT !.pc = "stored"]
    /\ UNCHANGED <<enabled, tip, tipTime, claimed, lastResult, lastAnchored, hadMatch,
                   spent, callVars, txVars, snapVars, rebuildVars, evaluated, mu, readers, lockVars>>

\* The engine returned its snapshot: ProcessBlock returns it, RebuildState
\* goes on with the next block or returns it to RebuildFromChain.
WriterBlockDone ==
    /\ writer.pc = "stored"
    /\ \E newSnap \in {Object(CallerRef, NewSnapshot(writer.header.Number, writer.header.Hash,
                                                      writer.work.Val))} :
          IF writer.op = "ProcessBlock"
          THEN WriterReturns
          ELSE /\ UNCHANGED mu
               /\ IF writer.header.Number < writer.to
                  THEN \E header \in {getHeaderByNumber(chainDb, {}, writer.header.Number + 1)[1]} :
                          EngineStarts(writer.op, writer.to, header, getHeader(chainDb, header),
                                       getReceipts(chainDb, header), newSnap)
                  ELSE writer' = [pc |-> "forceStore", op |-> writer.op, current |-> newSnap]
    /\ UNCHANGED <<chainVars, callVars, txVars, snapVars, rebuildVars, evaluated, readers,
                   committed, lockVars>>

\* RebuildFromChain: ForceStore of the snapshot RebuildState returned.
WriterForceStore ==
    /\ writer.pc = "forceStore"
    /\ \E stored \in {ForceStore(cache, db, writer.current.Val)} :
            /\ cache' = stored.cache
            /\ db' = stored.db
            /\ committed' = committed \cup {writer.current.Val}
    /\ WriterReturns
    /\ UNCHANGED <<enabled, tip, tipTime, claimed, lastResult, lastAnchored, hadMatch,
                   spent, callVars, txVars, snapVars, rebuildVars, evaluated, readers, lockVars>>

\* The block hashes readers ask for.
KnownHashes == {HeaderHash(n) : n \in 1..LastBlock(chainDb)}

\* Whether the writer is between two writes of one block's transition.
MidTransition ==
    /\ writer.pc \in {"rule", "store"}
    /\ writer.work.Val # writer.current.Val.State

\* What a reader has after SnapshotManager.GetSnapshot(hash).
ReaderGot(r, res) ==
    /\ cache' = res.cache
    /\ readers' = [readers EXCEPT ![r] = [pc |-> "idle", got |-> res.snap,
                                          mid |-> MidTransition]]

\* GetSnapshot and GetCurrentState: no lock of the manager is taken.
ReaderGetSnapshot ==
    /\ \E r \in {Unlocked}, hash \in KnownHashes :
            /\ readers[r].pc = "idle"
            /\ ReaderGot(r, GetSnapshot(cache, db, hash))
    /\ UNCHANGED <<enabled, tip, tipTime, db, claimed, lastResult, lastAnchored, hadMatch,
                   spent, callVars, txVars, snapVars, rebuildVars, evaluated, mu, writer,
                   committed, lockVars>>

\* GetBatchState, GetStats, GetSystemTransactions and ValidateOTSSystemTx:
\* m.mu.RLock().
ReaderLock ==
    /\ ~mu.writer
    /\ \E r \in {Locked} :
            /\ readers[r].pc = "idle"
            /\ mu' = [mu EXCEPT !.readers = @ \cup {r}]
            /\ readers' = [readers EXCEPT ![r] = [pc |-> "locked", got |-> Nil, mid |-> FALSE]]
    /\ UNCHANGED <<chainVars, callVars, txVars, snapVars, rebuildVars, evaluated, writer,
                   committed, lockVars>>

\* The call reads the snapshot of the hash it was given and returns: the
\* deferred m.mu.RUnlock.
ReaderReadUnlock ==
    /\ \E r \in Readers, hash \in KnownHashes :
            /\ readers[r].pc = "locked"
            /\ ReaderGot(r, GetSnapshot(cache, db, hash))
            /\ mu' = [mu EXCEPT !.readers = @ \ {r}]
    /\ UNCHANGED <<enabled, tip, tipTime, db, claimed, lastResult, lastAnchored, hadMatch,
                   spent, callVars, txVars, snapVars, rebuildVars, evaluated, writer,
                   committed, lockVars>>

NextConc ==
    \/ WriterProcessBlock
    \/ WriterGetParent
    \/ WriterRebuildFromChain
    \/ WriterApplyRule
    \/ WriterStore
    \/ WriterBlockDone
    \/ WriterForceStore
    \/ ReaderGetSnapshot
    \/ ReaderLock
    \/ ReaderReadUnlock

SpecConc == Init /\ [][NextConc]_vars

\* C28: every snapshot a reader obtained, through any of the manager's
\* calls and whatever the writer was doing, is a snapshot a store operation
\* stored in full: no reader sees a state with part of a block's transition.
C28_NoTornReads ==
    \A r \in Readers :
        readers[r].got # Nil => readers[r].got[1] \in committed

\* A reader obtained the snapshot of the parent block while the writer was
\* between two writes of the next block's transition.
C28_Witness ==
    \E r \in Readers :
        /\ readers[r].got # Nil
        /\ readers[r].mid
        /\ writer.pc \in {"rule", "store"}
        /\ readers[r].got[1].Hash = writer.header.ParentHash

-----------------------------------------------------------------------------
(* Failing calls on a free-standing OTSState                                *)

\* The error an operation returns when its status precondition fails.
PreconditionError(op) ==
    CASE op = "Trigger"       -> "ErrAlreadyTriggered"
      [] op = "MarkSubmitted" -> "ErrNotTriggered"
      [] op = "MarkConfirmed" -> "ErrNotSubmitted"
      [] op = "MarkAnchored"  -> "ErrNotConfirmed"
      [] OTHER                -> "nil"

\* The status precondition of op does not hold in state s.
PreconditionFails(op, s) ==
    CASE op = "Trigger"       -> ~s.Enabled \/ StatusOf(s) # BatchStatusNone
      [] op = "MarkSubmitted" -> StatusOf(s) # BatchStatusTriggered
      [] op = "MarkConfirmed" -> StatusOf(s) # BatchStatusSubmitted
      [] op = "MarkAnchored"  -> StatusOf(s) # BatchStatusConfirmed
      [] OTHER                -> FALSE

\* C29: a state operation called when its status precondition does not hold
\* returns its error (ErrAlreadyTriggered, ErrNotTriggered, ErrNotSubmitted,
\* ErrNotConfirmed) and leaves the whole OTSState unchanged.
C29_FailedPrecondition ==
    [][PreconditionFails(lastCall'.op, st)
          => /\ lastCall'.err = PreconditionError(lastCall'.op)
             /\ st' = st]_vars

\* MarkAnchored was refused on a Submitted batch, which is still there.
C29_Witness ==
    /\ lastCall.op = "MarkAnchored"
    /\ lastCall.err = "ErrNotConfirmed"
    /\ lastCall.before = BatchStatusSubmitted
    /\ StatusOf(st) = BatchStatusSubmitted
    /\ st.CurrentBatch[1].SubmittedAt > 0

MarkCalls == {"MarkSubmitted", "MarkConfirmed", "MarkAnchored"}

\* C30: every transition that is not in the transition relation fails with
\* InvalidTransition: MarkSubmitted, MarkConfirmed and MarkAnchored called
\* in a status other than Triggered, Submitted and Confirmed return
\* ErrInvalidTransition.
C30_InvalidTransition ==
    [][(lastCall'.op \in MarkCalls
        /\ ~CanTransitionTo(StatusOf(st), Established(lastCall'.op)))
          => lastCall'.err = "ErrInvalidTransition"]_vars

\* C30 as amended: such a call fails and the status stays, but the error is
\* the one of the operation (ErrNotTriggered, ErrNotSubmitted,
\* ErrNotConfirmed); no call returns ErrInvalidTransition.
C30_TransitionRefused ==
    [][/\ (lastCall'.op \in MarkCalls
           /\ ~CanTransitionTo(StatusOf(st), Established(lastCall'.op)))
             => /\ lastCall'.err \in {"ErrNotTriggered", "ErrNotSubmitted", "ErrNotConfirmed"}
                /\ StatusOf(st') = StatusOf(st)
       /\ lastCall'.err # "ErrInvalidTransition"]_vars

\* MarkSubmitted was refused on a batch that is already Submitted.
C30_Witness ==
    /\ lastCall.op = "MarkSubmitted"
    /\ lastCall.err = "ErrNotTriggered"
    /\ lastCall.before = BatchStatusSubmitted
    /\ StatusOf(st) = BatchStatusSubmitted

-----------------------------------------------------------------------------
(* The BTC txid from the client to the anchor tx                            *)

\* C33: the otsConfirmed tx built by GetSystemTransactions carries as
\* btcTxId the 32-byte value parsed from the hex string that
\* CheckConfirmation returned, and the anchor tx built for a Confirmed
\* batch carries as btcTxHash the value parsed from the txid recorded in
\* the batch.
C33_TxIDSurvives ==
    query.op = "GetSystemTransactions" =>
        \A i \in 1..Len(query.txs) :
            /\ IsOTSConfirmedTx(query.txs[i])
                  => query.txs[i].Data.Words[3]
                        = btcTxIDToBytes32Local(query.otsClient[1].result.BTCTxID)
            /\ IsAnchorTx(query.txs[i])
                  => query.txs[i].Data.Words[4]
                        = btcTxIDToBytes32Local(
                              query.parent[1].State.CurrentBatch[1].BTCTxID)

\* C34: with OTS enabled, ValidateOTSSystemTx accepts, for the same
\* parentHash, every transaction GetSystemTransactions returned.
C34_ProducerValidatorAgree ==
    query.op = "GetSystemTransactions" /\ enabled =>
        \A i \in 1..Len(query.txs) : query.verdicts[i] = "nil"

\* Each of the three kinds of tx was built and validated.
C34_Witness ==
    /\ query.op = "GetSystemTransactions"
    /\ enabled
    /\ Len(query.txs) = 1
    /\ IsAnchorTx(query.txs[1])
    /\ query.verdicts[1] = "nil"
    /\ query.parent[1].State.CurrentBatch[1].EndBlock
          # query.parent[1].State.CurrentBatch[1].TriggerBlock

C34_WitnessConfirmed ==
    /\ query.op = "GetSystemTransactions"
    /\ enabled
    /\ Len(query.txs) = 1
    /\ IsOTSConfirmedTx(query.txs[1])
    /\ query.verdicts[1] = "nil"

C34_WitnessSubmitted ==
    /\ query.op = "GetSystemTransactions"
    /\ enabled
    /\ Len(query.txs) = 1
    /\ IsOTSSubmittedTx(query.txs[1])
    /\ query.verdicts[1] = "nil"

-----------------------------------------------------------------------------
(* The ranges of successive batches                                         *)

\* C35: along the chain the batch anchored by a block starts one block
\* after the end of the batch anchored before it, at block 1 when it is
\* the first, and does not end before it starts; in every snapshot
\* ProcessBlock produced lastAnchoredBlock is below the snapshot's number
\* and a current batch starts at lastAnchoredBlock + 1.
C35_BatchesTile ==
    [][/\ lastAnchored' # lastAnchored
             => /\ lastAnchored'[1].StartBlock = LastAnchoredEnd + 1
                /\ lastAnchored'[1].StartBlock <= lastAnchored'[1].EndBlock
       /\ \A snap \in Snapshots' :
             /\ snap.State.LastAnchoredBlock < snap.Number
             /\ snap.State.CurrentBatch # Nil
                   => snap.State.CurrentBatch[1].StartBlock
                         = snap.State.LastAnchoredBlock + 1]_vars

\* A second batch was anchored, and it began right after the first; the
\* tip holds a third one that begins right after the second.
C35_Witness ==
    /\ lastAnchored # Nil
    /\ lastAnchored[1].StartBlock > 1
    /\ TipState.LastAnchoredBlock = lastAnchored[1].EndBlock
    /\ TipState.CurrentBatch # Nil
    /\ TipState.CurrentBatch[1].StartBlock = lastAnchored[1].EndBlock + 1
    /\ tip = MaxBlock

-----------------------------------------------------------------------------
(* A batch from its trigger to its anchor                                   *)

\* The batch of a parent state is the batch of the child state.
SameBatch(p, c) ==
    /\ c.CurrentBatch # Nil
    /\ c.CurrentBatch[1].StartBlock = p.CurrentBatch[1].StartBlock
    /\ c.CurrentBatch[1].EndBlock = p.CurrentBatch[1].EndBlock
    /\ c.CurrentBatch[1].TriggerBlock = p.CurrentBatch[1].TriggerBlock
    /\ c.CurrentBatch[1].RootHash = p.CurrentBatch[1].RootHash

\* C36: a block processed while a batch is current either anchors that
\* batch, on an event with its rootHash, or leaves it the current batch: no
\* block begins another batch or resets it; and a block without an event
\* that carries the rootHash of the batch leaves the batch in the status
\* it had.
C36_OnlyAnchorLeaves ==
    [][(tip' # tip /\ TipState.CurrentBatch # Nil) =>
          IF TipState'.CurrentBatch = Nil
          THEN /\ hadMatch'
               /\ TipState'.LastAnchoredBlock = TipState.CurrentBatch[1].EndBlock
          ELSE /\ SameBatch(TipState, TipState')
               /\ ~hadMatch' => StatusOf(TipState') = StatusOf(TipState)]_vars

\* The block of the call comes a day after its parent.
CrossesMidnight == evaluated.header.Time = 48

\* C37: a block that crosses midnight on an enabled state without a batch,
\* with a block after lastAnchoredBlock, begins the batch
\* [lastAnchoredBlock + 1, N - 1] triggered at N, and no other block
\* begins one; a block that crosses midnight and carries the Anchored event
\* of the Confirmed batch anchors it and begins no batch, and neither does
\* the block after it on the same day.
C37_TriggerAtMidnight ==
    evaluated.op = "applyTransitions" =>
        LET parent == evaluated.parent
            child == evaluated.child
            bare == evaluated.bare
            number == evaluated.header.Number
        IN  /\ parent.CurrentBatch = Nil =>
                 IF CrossesMidnight /\ parent.LastAnchoredBlock + 1 <= number - 1
                 THEN /\ bare.CurrentBatch # Nil
                      /\ bare.CurrentBatch[1].Status = BatchStatusTriggered
                      /\ bare.CurrentBatch[1].TriggerBlock = number
                      /\ bare.CurrentBatch[1].StartBlock = parent.LastAnchoredBlock + 1
                      /\ bare.CurrentBatch[1].EndBlock = number - 1
                      /\ \/ /\ child.CurrentBatch # Nil
                            /\ child.CurrentBatch[1].TriggerBlock = number
                         \/ /\ child.CurrentBatch = Nil
                            /\ child.LastAnchoredBlock = number - 1
                 ELSE bare = parent /\ child = parent
            /\ (/\ CrossesMidnight
                /\ StatusOf(parent) = BatchStatusConfirmed
                /\ \E at \in Qualifying(evaluated.receipts, anchoredSig) :
                      evaluated.receipts[at[1]].Logs[at[2]].Topics[2]
                         = parent.CurrentBatch[1].RootHash)
                  => /\ child.CurrentBatch = Nil
                     /\ child.LastAnchoredBlock = parent.CurrentBatch[1].EndBlock
                     /\ evaluated.next.CurrentBatch = Nil

-----------------------------------------------------------------------------
(* The lifecycle of a batch on a chain where the events of the batch        *)
(* arrive.  evaluated holds the statuses the current batch, or the batch    *)
(* anchored last, went through, rule by rule.                               *)

\* The blocks that only carry a batch to its anchor come after the chain.
LifecycleSteps == 3

\* The statuses a block takes the batch through, one per rule that fired.
RECURSIVE Visited(_, _)
Visited(trail, statuses) ==
    IF statuses = <<>> THEN trail
    ELSE IF trail # <<>> /\ trail[Len(trail)] = Head(statuses)
    THEN Visited(trail, Tail(statuses))
    ELSE Visited(Append(trail, Head(statuses)), Tail(statuses))

TrailOf ==
    IF evaluated.op = "lifecycle" THEN evaluated.trail ELSE <<>>

\* manager.go: ProcessBlock, step by step: the parent snapshot is read,
\* the engine applies rules 1 to 4 to a copy of its state, and the child
\* snapshot is stored.  A disabled manager returns no snapshot.
LiveBlock(bound, in, receipts) ==
    /\ tip < bound
    /\ \E header \in {[Number |-> tip + 1, Time |-> tipTime + in.step,
                       Coinbase |-> Validator(tip + 1),
                       Hash |-> HeaderHash(tip + 1), ParentHash |-> HeaderHash(tip)]} :
       \E parentHeader \in {IF in.parentKnown THEN <<[Time |-> tipTime]>> ELSE Nil} :
            /\ tip' = header.Number
            /\ tipTime' = header.Time
            /\ IF ~enabled
               THEN /\ lastResult' = Nil
                    /\ UNCHANGED <<cache, db, evaluated>>
               ELSE \E got \in {GetSnapshot(cache, db, header.ParentHash)} :
                    \E parent \in {IF got.err # "nil"
                                    THEN GetGenesisSnapshot(header.ParentHash).State
                                    ELSE got.snap[1].State} :
                    \E s1 \in {afterTrigger(parent, header, parentHeader)} :
                    \E s2 \in {afterSubmit(s1, header, receipts)} :
                    \E s3 \in {afterConfirm(s2, header, receipts)} :
                    \E s4 \in {afterAnchor(s3, header, receipts)} :
                    \E newSnap \in {NewSnapshot(header.Number, header.Hash, s4)} :
                    \E stored \in {StoreSnapshot(got.cache, db, newSnap)} :
                        /\ got.err = "nil" \/ header.Number = 1
                        /\ cache' = stored.cache
                        /\ db' = stored.db
                        /\ lastResult' = <<newSnap>>
                        /\ evaluated' =
                             [op |-> "lifecycle",
                              trail |-> Visited(IF s1 # parent THEN <<>> ELSE TrailOf,
                                          (IF s1.CurrentBatch = Nil THEN <<>>
                                           ELSE <<StatusOf(s1), StatusOf(s2), StatusOf(s3)>>)
                                          \o (IF s3.CurrentBatch # Nil /\ s4.CurrentBatch = Nil
                                              THEN <<BatchStatusAnchored>> ELSE <<>>))]
            /\ UNCHANGED <<enabled, claimed, lastAnchored, hadMatch, spent, callVars,
                           txVars, snapVars, rebuildVars, concVars>>

\* A block of the chain, with at most one system event of any rootHash.
LivePlainBlock ==
    \E in \in HeaderInputs, receipts \in SingleLogReceipts :
        LiveBlock(MaxBlock, in, receipts)

\* The receipts in which the event at place i of SystemLogs arrives: alone,
\* or after the event of the same kind of another batch.
ArrivalReceipts(i) == {Picked(SystemLogs, {i}, 1), Picked(SystemLogs, {i - 1, i}, 1)}

\* A block with a successful registry event of the current batch for the
\* status the batch is in.
EventArrives(status, i) ==
    /\ StatusOf(TipState) = status
    /\ SystemLogs[i].Topics[2] = TipState.CurrentBatch[1].RootHash
    /\ \E in \in HeaderInputs, receipts \in ArrivalReceipts(i) :
          LiveBlock(MaxBlock + LifecycleSteps, in, receipts)

SubmittedArrives == EventArrives(BatchStatusTriggered, 2)

ConfirmedArrives == EventArrives(BatchStatusSubmitted, 4)

AnchoredArrives == EventArrives(BatchStatusConfirmed, 6)

NextLive ==
    \/ LivePlainBlock
    \/ SubmittedArrives
    \/ ConfirmedArrives
    \/ AnchoredArrives

\* The hypothesis of the progress claim: in each status the event of the
\* batch eventually arrives.
SpecLive ==
    /\ Init
    /\ [][NextLive]_vars
    /\ WF_vars(SubmittedArrives)
    /\ WF_vars(ConfirmedArrives)
    /\ WF_vars(AnchoredArrives)

FullLifecycle ==
    <<BatchStatusTriggered, BatchStatusSubmitted, BatchStatusConfirmed, BatchStatusAnchored>>

\* C38: when the events of the batch arrive in each status, a triggered
\* batch that ends at a block e is eventually anchored: the tip snapshot
\* has no batch and lastAnchoredBlock = e; the statuses a batch went
\* through are always a beginning of Triggered, Submitted, Confirmed,
\* Anchored, and all four once it is anchored.
C38_LifecycleProgress ==
    /\ [](\E n \in 0..4 : TrailOf = SubSeq(FullLifecycle, 1, n))
    /\ [](TipState.CurrentBatch = Nil /\ TipState.LastAnchoredBlock > 0
             => TrailOf = FullLifecycle)
    /\ \A e \in 1..MaxBlock :
          (TipState.CurrentBatch # Nil /\ TipState.CurrentBatch[1].EndBlock = e)
             ~> (TipState.CurrentBatch = Nil /\ TipState.LastAnchoredBlock = e)

\* A batch triggered by the last block of the chain was anchored three
\* blocks later, one status a block.
C38_Witness ==
    /\ tip = MaxBlock + LifecycleSteps
    /\ TipState.CurrentBatch = Nil
    /\ TipState.LastAnchoredBlock = MaxBlock - 1
    /\ TrailOf = FullLifecycle

-----------------------------------------------------------------------------
(* The two locks.  Every operation is the sequence of its lock operations   *)
(* and of the calls it makes to the host's accessors and to the OTS client, *)
(* in the order of the code; a thread runs one operation at a time.         *)

Ins(do, on) == [do |-> do, on |-> on]

\* snapshot.go: GetSnapshot and HasSnapshot.
GetSnapshotSteps == <<Ins("RLock", SnapshotLock), Ins("RUnlock", SnapshotLock)>>

\* snapshot.go: StoreSnapshot, ForceStore, DeleteSnapshot and Clear.
StoreSnapshotSteps == <<Ins("Lock", SnapshotLock), Ins("Unlock", SnapshotLock)>>

\* A lookup that reads each candidate through GetSnapshot.
FindNearestSnapshotSteps_viaGetSnapshot ==
    <<Ins("RLock", SnapshotLock), Ins("call", "getHeaderByNumber")>>
    \o GetSnapshotSteps \o <<Ins("RUnlock", SnapshotLock)>>

\* snapshot.go: FindNearestSnapshot; getHash is called under the lock.
FindNearestSnapshotSteps ==
    <<Ins("RLock", SnapshotLock), Ins("call", "getHeaderByNumber"),
      Ins("RUnlock", SnapshotLock)>>

\* transition.go: ProcessBlock of the engine.
EngineSteps ==
    <<Ins("call", "getReceipts"), Ins("call", "getHeader")>> \o StoreSnapshotSteps

\* manager.go: ProcessBlock.
ProcessBlockSteps ==
    <<Ins("Lock", ManagerLock)>> \o GetSnapshotSteps \o EngineSteps
    \o <<Ins("Unlock", ManagerLock)>>

\* manager.go: RebuildFromChain, with one block for RebuildState to replay.
RebuildFromChainSteps ==
    <<Ins("Lock", ManagerLock), Ins("call", "getHeaderByNumber")>>
    \o FindNearestSnapshotSteps
    \o <<Ins("call", "getHeaderByNumber")>> \o EngineSteps
    \o StoreSnapshotSteps \o <<Ins("Unlock", ManagerLock)>>

\* A producer that gives the read lock back before it calls the client.
GetSystemTransactionsSteps_unlockFirst ==
    <<Ins("RLock", ManagerLock)>> \o GetSnapshotSteps
    \o <<Ins("RUnlock", ManagerLock), Ins("call", "otsClient")>>

\* manager.go: GetSystemTransactions with a client, for a Triggered or a
\* Submitted batch: Stamp or CheckConfirmation is called under the lock.
GetSystemTransactionsSteps ==
    <<Ins("RLock", ManagerLock)>> \o GetSnapshotSteps
    \o <<Ins("call", "otsClient"), Ins("RUnlock", ManagerLock)>>

\* manager.go: ValidateOTSSystemTx, GetBatchState and GetStats.
ValidateOTSSystemTxSteps ==
    <<Ins("RLock", ManagerLock)>> \o GetSnapshotSteps \o <<Ins("RUnlock", ManagerLock)>>

WriterOps == {"ProcessBlock", "RebuildFromChain"}

Operations ==
    WriterOps \cup {"GetSystemTransactions", "ValidateOTSSystemTx", "GetSnapshot",
                    "StoreSnapshot"}

Program(op) ==
    CASE op = "ProcessBlock" -> ProcessBlockSteps
      [] op = "RebuildFromChain" -> RebuildFromChainSteps
      [] op = "GetSystemTransactions" -> GetSystemTransactionsSteps
      [] op = "ValidateOTSSystemTx" -> ValidateOTSSystemTxSteps
      [] op = "GetSnapshot" -> GetSnapshotSteps
      [] op = "StoreSnapshot" -> StoreSnapshotSteps

Busy(t) == calls[t].op # "idle"

\* The instruction a busy thread is at.
At(t) == Program(calls[t].op)[calls[t].pc]

Holds(t, l) == \E i \in 1..Len(calls[t].held) : calls[t].held[i] = l

\* The thread after the instruction it is at: back outside when the
\* operation has no further instruction.
Advanced(t, stack) ==
    IF calls[t].pc = Len(Program(calls[t].op)) THEN Idle
    ELSE [calls[t] EXCEPT !.pc = @ + 1, !.asked = FALSE, !.held = stack]

Pushed(t) == Append(calls[t].held, At(t).on)

Popped(t) == SubSeq(calls[t].held, 1, Len(calls[t].held) - 1)

\* A thread enters an operation.
Start(t) ==
    /\ ~Busy(t)
    /\ \E op \in Operations : calls' = [calls EXCEPT ![t] = [Idle EXCEPT !.op = op, !.pc = 1]]
    /\ UNCHANGED locks

\* An accessor of the host or the OTS client returns.
CallReturns(t) ==
    /\ Busy(t) /\ At(t).do = "call"
    /\ calls' = [calls EXCEPT ![t] = Advanced(t, calls[t].held)]
    /\ UNCHANGED locks

\* RWMutex.RLock: the reader is counted; it goes on when no writer has
\* announced itself, and is blocked otherwise.
RLockCalled(t) ==
    /\ Busy(t) /\ At(t).do = "RLock" /\ ~calls[t].asked
    /\ \E l \in {At(t).on} :
          IF locks[l].announced = <<>>
          THEN /\ locks' = [locks EXCEPT ![l].active = @ \cup {t}]
               /\ calls' = [calls EXCEPT ![t] = Advanced(t, Pushed(t))]
          ELSE /\ locks' = [locks EXCEPT ![l].blocked = @ \cup {t}]
               /\ calls' = [calls EXCEPT ![t].asked = TRUE]

\* A blocked reader goes on once the writer's Unlock has let it in.
RLockReturns(t) ==
    /\ Busy(t) /\ At(t).do = "RLock" /\ calls[t].asked
    /\ t \in locks[At(t).on].active
    /\ calls' = [calls EXCEPT ![t] = Advanced(t, Pushed(t))]
    /\ UNCHANGED locks

RUnlock(t) ==
    /\ Busy(t) /\ At(t).do = "RUnlock"
    /\ locks' = [locks EXCEPT ![At(t).on].active = @ \ {t}]
    /\ calls' = [calls EXCEPT ![t] = Advanced(t, Popped(t))]

\* RWMutex.Lock: the writer takes the writers' mutex and announces itself,
\* which keeps later readers out.
LockCalled(t) ==
    /\ Busy(t) /\ At(t).do = "Lock" /\ ~calls[t].asked
    /\ locks[At(t).on].announced = <<>>
    /\ locks' = [locks EXCEPT ![At(t).on].announced = <<t>>]
    /\ calls' = [calls EXCEPT ![t].asked = TRUE]

\* The announced writer holds the lock once the readers have left.
LockReturns(t) ==
    /\ Busy(t) /\ At(t).do = "Lock" /\ calls[t].asked
    /\ locks[At(t).on].active = {}
    /\ locks' = [locks EXCEPT ![At(t).on].holds = TRUE]
    /\ calls' = [calls EXCEPT ![t] = Advanced(t, Pushed(t))]

\* RWMutex.Unlock: the readers blocked meanwhile are let in.
Unlock(t) ==
    /\ Busy(t) /\ At(t).do = "Unlock"
    /\ locks' = [locks EXCEPT ![At(t).on] =
                    [announced |-> <<>>, holds |-> FALSE, active |-> @.blocked,
                     blocked |-> {}]]
    /\ calls' = [calls EXCEPT ![t] = Advanced(t, Popped(t))]

\* The next instruction of a thread inside an operation.
Advance(t) ==
    \/ CallReturns(t)
    \/ RLockCalled(t)
    \/ RLockReturns(t)
    \/ RUnlock(t)
    \/ LockCalled(t)
    \/ LockReturns(t)
    \/ Unlock(t)

otherVars ==
    <<chainVars, callVars, txVars, snapVars, rebuildVars, evaluated, mu, writer, readers,
      committed>>

Starts == (\E t \in Threads : Start(t)) /\ UNCHANGED otherVars

Advances == (\E t \in Threads : Advance(t)) /\ UNCHANGED otherVars

NextLock == Starts \/ Advances

\* The accessors and the client return, sync.Mutex and sync.RWMutex starve
\* no caller: a thread inside an operation that can take its next step
\* again and again takes it.
SpecLock ==
    /\ Init
    /\ [][NextLock]_vars
    /\ \A t \in Threads : SF_vars(Advance(t) /\ UNCHANGED otherVars)

\* The manager's lock is taken before the snapshot manager's.
LockOrder ==
    \A t \in Threads :
        calls[t].held \in {<<>>, <<ManagerLock>>, <<SnapshotLock>>,
                           <<ManagerLock, SnapshotLock>>}

\* No thread asks for a lock it holds.
NoReacquire ==
    \A t \in Threads :
        Busy(t) /\ At(t).do \in {"Lock", "RLock"} => ~Holds(t, At(t).on)

\* Some thread inside an operation can take its next step.
NotStuck ==
    (\E t \in Threads : Busy(t)) => \E t \in Threads : ENABLED Advance(t)

\* C39: in every interleaving of the operations the manager's lock is
\* acquired before the snapshot manager's, no thread asks for a lock it
\* holds, the threads inside an operation are never all blocked, and every
\* operation returns.
C39_NoDeadlock ==
    /\ [](LockOrder /\ NoReacquire /\ NotStuck)
    /\ \A t \in Threads : Busy(t) ~> ~Busy(t)

\* A writer waits for the manager's lock while one reader is in the
\* snapshot manager under it and another thread writes a snapshot.
C39_Witness ==
    /\ calls["chain"].op = "RebuildFromChain" /\ calls["chain"].asked
    /\ calls["chain"].held = <<>>
    /\ calls["miner"].held = <<ManagerLock, SnapshotLock>>
    /\ calls["rpc"].op = "StoreSnapshot" /\ calls["rpc"].asked

\* The client call of GetSystemTransactions is in progress.
InClientCall(t) ==
    /\ calls[t].op = "GetSystemTransactions"
    /\ At(t) = Ins("call", "otsClient")

\* A writer of the manager waits for its lock.
WaitsForManager(t) ==
    /\ calls[t].op \in WriterOps
    /\ At(t) = Ins("Lock", ManagerLock)

\* C40: while Stamp or CheckConfirmation is in progress its caller holds
\* the manager's read lock, and no ProcessBlock or RebuildFromChain holds
\* the manager's lock; a reader that asks for the manager's lock
\* meanwhile gets it at once unless a writer has announced itself; and a
\* writer that waits for the manager's lock eventually holds it.
C40_ReadLockedClientCall ==
    /\ [](\A t \in Threads : InClientCall(t) =>
              /\ t \in locks[ManagerLock].active
              /\ ~locks[ManagerLock].holds
              /\ \A u \in Threads :
                    calls[u].op \in WriterOps => ~Holds(u, ManagerLock))
    /\ [][\A t, u \in Threads :
            (/\ InClientCall(t)
             /\ u # t /\ Busy(u) /\ At(u) = Ins("RLock", ManagerLock)
             /\ locks[ManagerLock].announced = <<>>
             /\ calls'[u] # calls[u])
              => u \in locks'[ManagerLock].active /\ Holds(u, ManagerLock)']_vars
    /\ \A u \in Threads :
          (Busy(u) /\ WaitsForManager(u)) ~> Holds(u, ManagerLock)

\* During a client call ProcessBlock has announced itself and waits, and a
\* reader that came before it holds the manager's lock too.
C40_Witness ==
    /\ InClientCall("miner")
    /\ calls["chain"].op = "ProcessBlock" /\ calls["chain"].asked
    /\ locks[ManagerLock].announced = <<"chain">>
    /\ ~locks[ManagerLock].holds
    /\ calls["rpc"].op = "ValidateOTSSystemTx"
    /\ locks[ManagerLock].active = {"miner", "rpc"}

====
